---- MODULE Spec2Model ----
(***************************************************************************)
(* A model of clice's MergedIndex (src/src/Index/MergedIndex.cpp): the     *)
(* per-source-file index that stores each distinct FileIndex once under a  *)
(* canonical id and records which (TU, include position) produced it.      *)
(* Further sections model the StringPool (Support/StringPool.cpp), the     *)
(* framing of incoming messages (Async/Network.cpp), the dispatch of       *)
(* messages by the Server and its open-file manager (Server/Server.cpp),   *)
(* the build Scheduler (Server/Scheduler.cpp), the background Indexer      *)
(* (Server/Indexer.cpp), the compiler front (Compiler/Driver.h: the        *)
(* argument parser and the driver query; the command lookup and the        *)
(* preamble bounds), the symbol index of one translation unit              *)
(* (Index/SymbolIndex.cpp), the plugin loader (Server/Plugin.cpp) and the  *)
(* module-name scanner (Compiler/Module.cpp), each with a specification of *)
(* its own over the shared initial state.                                  *)
(***************************************************************************)
EXTENDS Integers, Sequences, FiniteSets, TLC

(***************************************************************************)
(* Bounds of the model.                                                    *)
(***************************************************************************)
\* TU path ids are 0 .. MaxPath - 1.
MaxPath == 2
\* Include-chain positions are 0 .. MaxInclude - 1.
MaxInclude == 1
\* No TU holds more than MaxBindings bindings at a time.
MaxBindings == 2
\* lookup(offset) is called with offsets 0 .. MaxOffset.
MaxOffset == 3

PathIds == 0 .. (MaxPath - 1)
IncludeIds == 0 .. (MaxInclude - 1)
Offsets == 0 .. MaxOffset

(***************************************************************************)
(* Generic helpers.                                                        *)
(***************************************************************************)
\* All sequences that list every element of S exactly once.
Perms(S) ==
    {s \in [1 .. Cardinality(S) -> S] : \A i, j \in DOMAIN s : i # j => s[i] # s[j]}

\* The elements of a sequence.
Range(s) == {s[i] : i \in DOMAIN s}

\* A map with key k set to v (the key is added when absent).
Put(f, k, v) == [x \in (DOMAIN f) \cup {k} |-> IF x = k THEN v ELSE f[x]]

\* The map with no keys.
EmptyMap == [x \in {} |-> {}]

\* A set of integers as the ascending sequence of its elements.
RECURSIVE SortedSeq(_)
SortedSeq(S) ==
    IF S = {} THEN <<>>
    ELSE LET m == CHOOSE x \in S : \A y \in S : x <= y
         IN  <<m>> \o SortedSeq(S \ {m})

\* The sequence of n zeros (a vector resized to n with value 0).
RECURSIVE Zeros(_)
Zeros(n) == IF n = 0 THEN <<>> ELSE Append(Zeros(n - 1), 0)

\* A sequence with position i set to v.
SetAt(s, i, v) == SubSeq(s, 1, i - 1) \o <<v>> \o SubSeq(s, i + 1, Len(s))

\* One fixed enumeration of a set, for tables that no reader searches by position.
SomeOrder(S) == CHOOSE s \in Perms(S) : TRUE

(***************************************************************************)
(* Index/TUIndex.h: Occurrence, Relation, FileIndex.                       *)
(***************************************************************************)
\* RelationKind is a bit mask; a kind is modelled as its set of flags.
KindFlags == {"Definition", "Declaration", "Reference"}

\* `kind & mask` of RelationKind: true when the two masks share a flag.
KindIntersects(kind, mask) == kind \cap mask # {}

\* LocalSourceRange::contains on a half-open [begin, end) range.
contains(range, offset) == range.begin <= offset /\ offset < range.end

Rng(b, e) == [begin |-> b, end |-> e]
Occ(b, e, t) == [range |-> Rng(b, e), target |-> t]
Rel(k, b, e, t) == [kind |-> {k}, range |-> Rng(b, e), target_symbol |-> t]

\* Symbol hashes.  Before an input is merged, a lookup asks for a symbol that
\* occurs in no TU.
Symbols == {1, 2}

\* The FileIndex inputs: one with a range nested in another, one with two
\* disjoint ranges.  Occurrences are strictly ascending in
\* (range.begin, range.end, target), as the indexer leaves them.
IndexNested ==
    [occurrences |-> <<Occ(0, 4, 1), Occ(1, 2, 2)>>,
     relations |-> (1 :> <<Rel("Definition", 0, 4, 0)>>) @@
                   (2 :> <<Rel("Reference", 1, 2, 0)>>)]
IndexFlat ==
    [occurrences |-> <<Occ(1, 2, 2), Occ(3, 4, 1)>>,
     relations |-> (1 :> <<Rel("Reference", 3, 4, 0)>>) @@
                   (2 :> <<Rel("Declaration", 1, 2, 0), Rel("Reference", 1, 2, 0)>>)]
FileIndices == {IndexNested, IndexFlat}

\* refl::less on Occurrence: member-wise lexicographic (range.begin, range.end, target).
OccurrenceLess(a, b) ==
    \/ a.range.begin < b.range.begin
    \/ /\ a.range.begin = b.range.begin
       /\ \/ a.range.end < b.range.end
          \/ a.range.end = b.range.end /\ a.target < b.target

\* ranges::sort(occurrences, refl::less) over a set of distinct occurrences.
SortOccurrences(S) ==
    CHOOSE s \in Perms(S) : \A i, j \in DOMAIN s : i < j => OccurrenceLess(s[i], s[j])

\* FileIndex::hash(): SHA-256 of the serialized index, one digest per content.
hash(index) ==
    CASE index = IndexNested -> "sha256:nested"
      [] index = IndexFlat -> "sha256:flat"

(***************************************************************************)
(* MergedIndex::Impl and the persisted form (binary::MergedIndex).         *)
(***************************************************************************)
\* A default-constructed HeaderContext: version 0 and no includes.
NewHeaderContext == [version |-> 0, includes |-> <<>>]

\* A default-constructed MergedIndex::Impl.
NewImpl ==
    [header_contexts |-> EmptyMap,
     max_canonical_id |-> 0,
     canonical_cache |-> EmptyMap,
     canonical_ref_counts |-> <<>>,
     removed |-> {},
     occurrences |-> EmptyMap,
     relations |-> EmptyMap,
     occurrences_cache |-> <<>>]

\* A MergedIndex object: impl and buffer are each absent (<<>>) or present (<<x>>).
NewMergedIndex == [impl |-> <<>>, buffer |-> <<>>]

\* MergedIndex(buffer, nullptr): a read-only view over persisted bytes.
OpenBuffer(bytes) == [impl |-> <<>>, buffer |-> <<bytes>>]

\* roaring::Roaring::write: the ids of a bitmap in ascending order.
write_bitmap(bitmap) == SortedSeq(bitmap)

\* read_bitmap: the bitmap holding the ids of the bytes.
read_bitmap(bytes) == Range(bytes)

\* header_contexts[path_id]: the entry, default-constructed when absent.
ContextAt(header_contexts, path_id) ==
    IF path_id \in DOMAIN header_contexts THEN header_contexts[path_id]
    ELSE NewHeaderContext

\* The persisted tables of an Impl whose order no reader depends on.
SerializeCache(impl) ==
    LET entries == {[sha256 |-> h, canonical_id |-> impl.canonical_cache[h]] :
                      h \in DOMAIN impl.canonical_cache}
    IN  SomeOrder(entries)

SerializeContexts(impl) ==
    LET entries == {[path |-> p, contexts |-> impl.header_contexts[p]] :
                      p \in DOMAIN impl.header_contexts}
    IN  SomeOrder(entries)

SerializeRelationsOf(symbol_relations) ==
    LET entries == {[relation |-> r, context |-> write_bitmap(symbol_relations[r])] :
                      r \in DOMAIN symbol_relations}
    IN  SomeOrder(entries)

\* The occurrence rows, in the iteration order occ_order of the DenseMap.
SerializeOccurrences(impl, occ_order) ==
    [i \in DOMAIN occ_order |->
        [occurrence |-> occ_order[i],
         context |-> write_bitmap(impl.occurrences[occ_order[i]])]]

\* The per-symbol relation rows, in the iteration order sym_order of the DenseMap.
SerializeRelations(impl, sym_order) ==
    [i \in DOMAIN sym_order |->
        [symbol |-> sym_order[i],
         relations |-> SerializeRelationsOf(impl.relations[sym_order[i]])]]

\* MergedIndex::serialize: the bytes written for one iteration order of the
\* occurrence map and one of the relation map (a DenseMap iterates in bucket
\* order, which is unrelated to the order of the keys).
serialize(impl, occ_order, sym_order) ==
    [max_canonical_id |-> impl.max_canonical_id,
     canonical_cache |-> SerializeCache(impl),
     contexts |-> SerializeContexts(impl),
     occurrences |-> SerializeOccurrences(impl, occ_order),
     relations |-> SerializeRelations(impl, sym_order)]

\* Every byte string serialize can write for an Impl.
Serializations(impl) ==
    {serialize(impl, oo, so) :
        oo \in Perms(DOMAIN impl.occurrences), so \in Perms(DOMAIN impl.relations)}

(***************************************************************************)
(* The operations of MergedIndex, as functions of the object.              *)
(***************************************************************************)
\* The loops of load_in_memory over the persisted contexts: each entry adds one
\* to the ref count of every canonical id it binds.
RECURSIVE CountIncludes(_, _)
CountIncludes(ref_counts, includes) ==
    IF includes = <<>> THEN ref_counts
    ELSE LET slot == Head(includes).canonical_id + 1
         IN  CountIncludes(SetAt(ref_counts, slot, ref_counts[slot] + 1),
                           Tail(includes))

RECURSIVE CountContexts(_, _)
CountContexts(ref_counts, entries) ==
    IF entries = <<>> THEN ref_counts
    ELSE CountContexts(CountIncludes(ref_counts, Head(entries).contexts.includes),
                       Tail(entries))

\* The Impl that load_in_memory builds from persisted bytes.  The tombstone set
\* and the lookup cache are not part of the bytes and start empty.
LoadBuffer(root) ==
    [header_contexts |->
        [p \in {e.path : e \in Range(root.contexts)} |->
            (CHOOSE e \in Range(root.contexts) : e.path = p).contexts],
     max_canonical_id |-> root.max_canonical_id,
     canonical_cache |->
        [h \in {e.sha256 : e \in Range(root.canonical_cache)} |->
            (CHOOSE e \in Range(root.canonical_cache) : e.sha256 = h).canonical_id],
     canonical_ref_counts |->
        CountContexts(Zeros(root.max_canonical_id), root.contexts),
     removed |-> {},
     occurrences |->
        [o \in {e.occurrence : e \in Range(root.occurrences)} |->
            read_bitmap((CHOOSE e \in Range(root.occurrences) : e.occurrence = o).context)],
     relations |->
        [s \in {e.symbol : e \in Range(root.relations)} |->
            LET rows == (CHOOSE e \in Range(root.relations) : e.symbol = s).relations
            IN  [r \in {e.relation : e \in Range(rows)} |->
                    read_bitmap((CHOOSE e \in Range(rows) : e.relation = r).context)]],
     occurrences_cache |-> <<>>]

\* MergedIndex::load_in_memory.  Once impl exists no method reads the buffer
\* again (each tests impl first), so the loaded object is kept without it.
load_in_memory(self) ==
    IF self.impl # <<>> THEN self
    ELSE IF self.buffer = <<>> THEN [self EXCEPT !.impl = <<NewImpl>>]
    ELSE [impl |-> <<LoadBuffer(self.buffer[1])>>, buffer |-> <<>>]

\* The loop of merge over index.occurrences: add canonical_id to each bitmap.
RECURSIVE AddOccurrences(_, _, _)
AddOccurrences(occurrences, list, canonical_id) ==
    IF list = <<>> THEN occurrences
    ELSE LET o == Head(list)
             old == IF o \in DOMAIN occurrences THEN occurrences[o] ELSE {}
         IN  AddOccurrences(Put(occurrences, o, old \cup {canonical_id}),
                            Tail(list), canonical_id)

\* The inner loop of merge over one symbol's relations.
RECURSIVE AddRelations(_, _, _)
AddRelations(target, list, canonical_id) ==
    IF list = <<>> THEN target
    ELSE LET r == Head(list)
             old == IF r \in DOMAIN target THEN target[r] ELSE {}
         IN  AddRelations(Put(target, r, old \cup {canonical_id}),
                          Tail(list), canonical_id)

\* The outer loop of merge over index.relations.
MergeRelations(relations, index_relations, canonical_id) ==
    [s \in (DOMAIN relations) \cup (DOMAIN index_relations) |->
        LET target == IF s \in DOMAIN relations THEN relations[s] ELSE EmptyMap
        IN  IF s \in DOMAIN index_relations
            THEN AddRelations(target, index_relations[s], canonical_id)
            ELSE target]

\* merge, when the hash is already in the cache: count one more reference
\* and clear the tombstone.
merge_known(impl, contexts, canonical_id) ==
    [impl EXCEPT !.header_contexts = contexts,
                 !.canonical_ref_counts[canonical_id + 1] = @ + 1,
                 !.removed = @ \ {canonical_id}]

\* merge of new content that forgets to advance max_canonical_id.
merge_new_same_id(impl, contexts, cache, canonical_id, index) ==
    [impl EXCEPT !.header_contexts = contexts,
                 !.canonical_cache = cache,
                 !.occurrences = AddOccurrences(@, index.occurrences, canonical_id),
                 !.relations = MergeRelations(@, index.relations, canonical_id),
                 !.canonical_ref_counts = Append(@, 1)]

\* merge, when the hash is new: insert the content under the new id, seed its
\* ref count at 1 and advance max_canonical_id.
merge_new(impl, contexts, cache, canonical_id, index) ==
    [impl EXCEPT !.header_contexts = contexts,
                 !.canonical_cache = cache,
                 !.occurrences = AddOccurrences(@, index.occurrences, canonical_id),
                 !.relations = MergeRelations(@, index.relations, canonical_id),
                 !.canonical_ref_counts = Append(@, 1),
                 !.max_canonical_id = @ + 1]

\* MergedIndex::merge(path_id, include_id, index).
merge(self, path_id, include_id, index) ==
    LET loaded == load_in_memory(self)
        impl == loaded.impl[1]
        context == ContextAt(impl.header_contexts, path_id)
        hash_key == hash(index)
        success == hash_key \notin DOMAIN impl.canonical_cache
        cache == IF success
                 THEN Put(impl.canonical_cache, hash_key, impl.max_canonical_id)
                 ELSE impl.canonical_cache
        canonical_id == cache[hash_key]
        bound == [context EXCEPT !.includes =
                    Append(@, [include |-> include_id, canonical_id |-> canonical_id])]
        contexts == Put(impl.header_contexts, path_id, bound)
    IN  [loaded EXCEPT !.impl = <<
            IF ~success
            THEN merge_known(impl, contexts, canonical_id)
            ELSE merge_new(impl, contexts, cache, canonical_id, index)>>]

\* A remove loop that stops after the first include of the TU.
DropFirstInclude(impl, includes) ==
    IF includes = <<>> THEN impl
    ELSE LET canonical_id == Head(includes).canonical_id
             ref_counts == impl.canonical_ref_counts[canonical_id + 1] - 1
             counted == [impl EXCEPT !.canonical_ref_counts[canonical_id + 1] = ref_counts]
         IN  IF ref_counts = 0
             THEN [counted EXCEPT !.removed = @ \cup {canonical_id}]
             ELSE counted

\* The loop of remove over the includes of the TU: decrement, tombstone at zero.
\* (The counters are std::uint32_t; a decrement below zero, which would wrap,
\* shows here as a negative count.)
RECURSIVE DropIncludes(_, _)
DropIncludes(impl, includes) ==
    IF includes = <<>> THEN impl
    ELSE LET canonical_id == Head(includes).canonical_id
             ref_counts == impl.canonical_ref_counts[canonical_id + 1] - 1
             counted == [impl EXCEPT !.canonical_ref_counts[canonical_id + 1] = ref_counts]
         IN  DropIncludes(IF ref_counts = 0
                          THEN [counted EXCEPT !.removed = @ \cup {canonical_id}]
                          ELSE counted,
                          Tail(includes))

\* MergedIndex::remove(path_id).
remove(self, path_id) ==
    LET loaded == load_in_memory(self)
        impl == loaded.impl[1]
        context == ContextAt(impl.header_contexts, path_id)
        dropped == DropIncludes(impl, context.includes)
    IN  [loaded EXCEPT !.impl = <<
            [dropped EXCEPT !.header_contexts =
                Put(impl.header_contexts, path_id, [context EXCEPT !.includes = <<>>])]>>]

\* ranges::lower_bound over the projected keys: the first position of the
\* binary search's partition, 1 .. Len(keys) + 1.
RECURSIVE lower_bound_from(_, _, _, _)
lower_bound_from(keys, value, first, len) ==
    IF len = 0 THEN first
    ELSE LET half == len \div 2
             mid == first + half
         IN  IF keys[mid] < value
             THEN lower_bound_from(keys, value, mid + 1, len - half - 1)
             ELSE lower_bound_from(keys, value, first, half)

lower_bound(keys, value) == lower_bound_from(keys, value, 1, Len(keys))

\* A lookup loop that hands over everything from position it on, unchecked.
scan_all(occurrences, it, offset) ==
    IF it > Len(occurrences) THEN <<>>
    ELSE SubSeq(occurrences, it, Len(occurrences))

\* The while loop of lookup(offset): hand over occurrences from position it on,
\* stopping at the first one that does not contain the offset (the callback
\* returns true each time).
RECURSIVE scan_from(_, _, _)
scan_from(occurrences, it, offset) ==
    IF it > Len(occurrences) THEN <<>>
    ELSE IF contains(occurrences[it].range, offset)
         THEN <<occurrences[it]>> \o scan_from(occurrences, it + 1, offset)
         ELSE <<>>

\* The sorted occurrence cache as lookup(offset) leaves it: filled on the
\* first call that finds it empty, kept as it is afterwards.
fill_cache(impl) ==
    IF impl.occurrences_cache = <<>>
    THEN SortOccurrences(DOMAIN impl.occurrences)
    ELSE impl.occurrences_cache

\* MergedIndex::lookup(offset, callback): the object afterwards and the
\* occurrences passed to the callback, in order.
lookup_offset(self, offset) ==
    IF self.impl # <<>>
    THEN LET occurrences == fill_cache(self.impl[1])
             ends == [i \in DOMAIN occurrences |-> occurrences[i].range.end]
         IN  [self |-> [self EXCEPT !.impl[1].occurrences_cache = occurrences],
              found |-> scan_from(occurrences, lower_bound(ends, offset), offset)]
    ELSE IF self.buffer # <<>>
    THEN LET rows == self.buffer[1].occurrences
             occurrences == [i \in DOMAIN rows |-> rows[i].occurrence]
             ends == [i \in DOMAIN rows |-> rows[i].occurrence.range.end]
         IN  [self |-> self,
              found |-> scan_from(occurrences, lower_bound(ends, offset), offset)]
    ELSE [self |-> self, found |-> <<>>]

\* MergedIndex::lookup(symbol, kind, callback): the object afterwards and the
\* set of relations passed to the callback.
lookup_symbol(self, symbol, kind) ==
    IF self.impl # <<>>
    THEN LET impl == self.impl[1]
             relations == IF symbol \in DOMAIN impl.relations
                          THEN impl.relations[symbol] ELSE EmptyMap
         IN  [self |-> [self EXCEPT !.impl[1].relations = Put(@, symbol, relations)],
              found |-> DOMAIN relations]
    ELSE IF self.buffer # <<>>
    THEN LET entries == self.buffer[1].relations
             symbols == [i \in DOMAIN entries |-> entries[i].symbol]
             it == lower_bound(symbols, symbol)
         IN  [self |-> self,
              found |-> IF it > Len(entries) \/ entries[it].symbol # symbol
                        THEN {}
                        ELSE {e.relation : e \in
                                {x \in Range(entries[it].relations) :
                                    KindIntersects(x.relation.kind, kind)}}]
    ELSE [self |-> self, found |-> {}]

\* operator==(MergedIndex&, MergedIndex&): loads both, then compares the Impls
\* member by member.
Equal(lhs, rhs) == load_in_memory(lhs).impl[1] = load_in_memory(rhs).impl[1]

(***************************************************************************)
(* The state machine: one MergedIndex object and its caller.               *)
(***************************************************************************)
VARIABLES
    index,              \* the MergedIndex object (impl, buffer)
    out,                \* the bytes serialize wrote, held until the caller's next call
    call,               \* the last call made and its lookup arguments
    found_occurrences,  \* what the last lookup(offset) passed to its callback
    found_relations,    \* what the last lookup(symbol, kind) passed to its callback
    merged              \* history: (content hash, canonical id) of every merge

index_vars == <<index, out, call, found_occurrences, found_relations, merged>>

\* The StringPool object and its caller (Support/StringPool.h).
VARIABLES
    pool,               \* the StringPool (allocator, pooled_strs, pooled_str_lists)
    pool_call,          \* the last call made on the pool: input, whether find hit, result
    saved_strs,         \* history: (input, result) of every save_cstr since the last clear
    saved_lists         \* history: (input, result) of every save_cstr_list since the last clear

pool_vars == <<pool, pool_call, saved_strs, saved_lists>>

\* The inbound byte stream and its reader (Async/Network.cpp).
VARIABLES
    wire,               \* the bytes the client wrote that no read has delivered yet
    sent,               \* history: the frames the client wrote, in order
    buffer,             \* on_read's static receive buffer
    dispatched,         \* the JSON values handed to the callback, in order
    net_state           \* "reading", "closed" (after EOF) or "fatal" (log::fatal)

net_vars == <<wire, sent, buffer, dispatched, net_state>>

\* The JSON-RPC dispatcher (Server::on_receive and the writers, Server/Server.cpp).
VARIABLES
    server,             \* the Server members: the two id counters, and whether it runs
    tasks,              \* the on_receive coroutines in flight, by arrival number
    written,            \* the messages handed to net::write, in order
    received,           \* history: the values on_receive was called with, in order
    handled,            \* history: the arrival numbers whose handler was invoked
    completed           \* history: the arrival numbers in the order their handlers finished

server_vars == <<server, tasks, written, received, handled, completed>>

\* The open-file manager (ActiveFileManager, Server/Server.cpp).
VARIABLES
    opening_files,      \* the ActiveFileManager (capability, items, nodes, index)
    recency,            \* history: every path accessed, most recent access first
    evicted,            \* the path the last call evicted (absent when it evicted none)
    commands            \* per path, where its on_execute_command handler stands

lru_vars == <<opening_files, recency, evicted, commands>>

\* The build scheduler (Server/Scheduler.cpp).
VARIABLES
    files,              \* Scheduler::files: path -> File (isIdle, waitings, content)
    pchs,               \* Scheduler::pchs: path -> PCHInfo
    builds              \* the buildAST and codeComplete coroutines in arrival order, each with its position

sched_vars == <<files, pchs, builds>>

\* The project indexer (Server/Indexer.cpp).
VARIABLES
    indexer,            \* project_index and in_memory_indices
    waitings,           \* Indexer::waitings: the queued path ids
    workings,           \* Indexer::workings: the slots of the index tasks in flight
    loops,              \* the schedule_next coroutines: how many stand at each position
    compiled            \* history: the index task that came back last

indexer_vars == <<indexer, waitings, workings, loops, compiled>>

\* The compiler front: the driver query, the argument parser, the command
\* lookup and the preamble bounds (Compiler/Driver.h, Compiler/Command.h).
VARIABLES
    driver_call         \* the last call: [op, input, result]

driver_vars == <<driver_call>>

\* The per-file symbol index (Index/SymbolIndex.cpp).
VARIABLES
    builder,            \* the SymbolIndexBuilder, and the SymbolIndex once built
    symbol_call         \* the last locateSymbol(id): [op, id, result, past_end]

symbol_vars == <<builder, symbol_call>>

\* The plugin loader (Server/Plugin.cpp).
VARIABLES
    plugin_call         \* load_plugins so far: the last Plugin::load and the plugins loaded

plugin_vars == <<plugin_call>>

\* The module scanner (Compiler/Module.cpp).
VARIABLES
    module_call         \* the last scanModuleName: [op, input, result]

module_vars == <<module_call>>

vars == <<index_vars, pool_vars, net_vars, server_vars, lru_vars, sched_vars, indexer_vars,
          driver_vars, symbol_vars, plugin_vars, module_vars>>

\* What the calls on one component leave alone: the other components.
not_index_vars ==
    <<pool_vars, net_vars, server_vars, lru_vars, sched_vars, indexer_vars, driver_vars,
      symbol_vars, plugin_vars, module_vars>>
not_pool_vars ==
    <<index_vars, net_vars, server_vars, lru_vars, sched_vars, indexer_vars, driver_vars,
      symbol_vars, plugin_vars, module_vars>>
not_net_vars ==
    <<index_vars, pool_vars, server_vars, lru_vars, sched_vars, indexer_vars, driver_vars,
      symbol_vars, plugin_vars, module_vars>>
not_server_vars ==
    <<index_vars, pool_vars, net_vars, lru_vars, sched_vars, indexer_vars, driver_vars,
      symbol_vars, plugin_vars, module_vars>>
not_lru_vars ==
    <<index_vars, pool_vars, net_vars, server_vars, sched_vars, indexer_vars, driver_vars,
      symbol_vars, plugin_vars, module_vars>>
not_sched_vars ==
    <<index_vars, pool_vars, net_vars, server_vars, lru_vars, indexer_vars, driver_vars,
      symbol_vars, plugin_vars, module_vars>>
not_indexer_vars ==
    <<index_vars, pool_vars, net_vars, server_vars, lru_vars, sched_vars, driver_vars,
      symbol_vars, plugin_vars, module_vars>>
not_driver_vars ==
    <<index_vars, pool_vars, net_vars, server_vars, lru_vars, sched_vars, indexer_vars,
      symbol_vars, plugin_vars, module_vars>>
not_symbol_vars ==
    <<index_vars, pool_vars, net_vars, server_vars, lru_vars, sched_vars, indexer_vars, driver_vars,
      plugin_vars, module_vars>>
not_plugin_vars ==
    <<index_vars, pool_vars, net_vars, server_vars, lru_vars, sched_vars, indexer_vars, driver_vars,
      symbol_vars, module_vars>>
not_module_vars ==
    <<index_vars, pool_vars, net_vars, server_vars, lru_vars, sched_vars, indexer_vars, driver_vars,
      symbol_vars, plugin_vars>>

\* The kind masks lookup(symbol, kind) is called with.
KindMasks == {{"Reference"}, {"Definition", "Declaration"}}

Called(op) == [op |-> op, offset |-> 0, symbol |-> 0, kind |-> {}]

InitIndex ==
    /\ index = NewMergedIndex
    /\ out = <<>>
    /\ call = Called("new")
    /\ found_occurrences = <<>>
    /\ found_relations = {}
    /\ merged = {}

\* A default-constructed StringPool: nothing allocated, nothing pooled.
NewStringPool == [allocator |-> <<>>, pooled_strs |-> {}, pooled_str_lists |-> {}]

InitPool ==
    /\ pool = NewStringPool
    /\ pool_call = [op |-> "new", input |-> <<>>, hit |-> FALSE, result |-> <<>>]
    /\ saved_strs = {}
    /\ saved_lists = {}

\* The stream as listen() leaves it: reading, nothing received.
InitNet ==
    /\ wire = <<>>
    /\ sent = <<>>
    /\ buffer = <<>>
    /\ dispatched = <<>>
    /\ net_state = "reading"

\* A constructed Server: both id counters at zero, the loop running.
NewServer == [server_request_id |-> 0, client_request_id |-> 0, running |-> TRUE]

InitServer ==
    /\ server = NewServer
    /\ tasks = EmptyMap
    /\ written = <<>>
    /\ received = <<>>
    /\ handled = {}
    /\ completed = <<>>

\* The largest capability of the open-file manager, and its default.
MaxCapability == 2

\* A constructed ActiveFileManager: no file tracked.  `items` lists the nodes of
\* the recency list front to back, `nodes` holds each node's (path, file) pair,
\* and `index` maps a path to its node (the list iterator).
NewActiveFileManager ==
    [capability |-> MaxCapability, items |-> <<>>, nodes |-> EmptyMap, index |-> EmptyMap]

InitLru ==
    /\ opening_files = NewActiveFileManager
    /\ recency = <<>>
    /\ evicted = <<>>
    /\ commands = [path \in {"a.cpp", "b.cpp", "c.cpp"} |-> "idle"]

\* A constructed Scheduler: no file, no preamble, no build requested.
InitSched ==
    /\ files = EmptyMap
    /\ pchs = EmptyMap
    /\ builds = <<>>

\* A constructed Indexer: nothing indexed, nothing queued, no slot, no loop.
InitIndexer ==
    /\ indexer = [project_index |-> {}, in_memory_indices |-> EmptyMap]
    /\ waitings = <<>>
    /\ workings = <<>>
    /\ loops = [scheduled |-> 0, update_event |-> 0, out_of_bounds |-> 0]
    /\ compiled = <<>>

\* No call of the compiler front made yet.
InitDriver == driver_call = [op |-> "new", input |-> <<>>, result |-> <<>>]

\* A SymbolIndexBuilder as constructed: nothing collected yet.
NewBuilder == [symbols |-> <<>>, ranges |-> <<>>, occurrences |-> <<>>, phase |-> "collect"]

InitSymbol ==
    /\ builder = NewBuilder
    /\ symbol_call = [op |-> "new", id |-> <<>>, result |-> <<>>, past_end |-> FALSE]

\* No plugin loaded yet.
InitPlugin ==
    plugin_call = [op |-> "new", input |-> <<>>, result |-> <<>>, registered |-> FALSE,
                   plugins |-> 0, exited |-> FALSE]

\* No text scanned yet.
InitModule == module_call = [op |-> "new", input |-> <<>>, result |-> <<>>]

\* Every component as constructed.
Init ==
    /\ InitIndex
    /\ InitPool
    /\ InitNet
    /\ InitServer
    /\ InitLru
    /\ InitSched
    /\ InitIndexer
    /\ InitDriver
    /\ InitSymbol
    /\ InitPlugin
    /\ InitModule

\* The canonical id merge binds an input to.
BoundId(self, index_in) == load_in_memory(self).impl[1].canonical_cache[hash(index_in)]

Merge(path_id, include_id, index_in) ==
    /\ Len(ContextAt(load_in_memory(index).impl[1].header_contexts, path_id).includes)
          < MaxBindings
    /\ index' = merge(index, path_id, include_id, index_in)
    /\ merged' = merged \cup
          {[hash |-> hash(index_in), canonical_id |-> BoundId(index', index_in)]}
    /\ call' = Called("merge")
    /\ found_occurrences' = <<>>
    /\ found_relations' = {}
    /\ out' = <<>>
    /\ UNCHANGED not_index_vars

Remove(path_id) ==
    /\ index' = remove(index, path_id)
    /\ call' = Called("remove")
    /\ found_occurrences' = <<>>
    /\ found_relations' = {}
    /\ out' = <<>>
    /\ UNCHANGED merged
    /\ UNCHANGED not_index_vars

LookupOffset(offset) ==
    LET result == lookup_offset(index, offset)
    IN  /\ index' = result.self
        /\ found_occurrences' = result.found
        /\ found_relations' = {}
        /\ call' = [Called("lookup_offset") EXCEPT !.offset = offset]
        /\ out' = <<>>
        /\ UNCHANGED merged
        /\ UNCHANGED not_index_vars

LookupSymbol(symbol, kind) ==
    LET result == lookup_symbol(index, symbol, kind)
    IN  /\ index' = result.self
        /\ found_relations' = result.found
        /\ found_occurrences' = <<>>
        /\ call' = [Called("lookup_symbol") EXCEPT !.symbol = symbol, !.kind = kind]
        /\ out' = <<>>
        /\ UNCHANGED merged
        /\ UNCHANGED not_index_vars

\* serialize dereferences impl, so it is only called on a loaded index.
Serialize ==
    /\ index.impl # <<>>
    /\ \E bytes \in Serializations(index.impl[1]) : out' = <<bytes>>
    /\ call' = Called("serialize")
    /\ found_occurrences' = <<>>
    /\ found_relations' = {}
    /\ UNCHANGED <<index, merged>>
    /\ UNCHANGED not_index_vars

\* The caller replaces the object by a read-only view over the bytes written
\* (MergedIndex::load, or the MergedIndex(bytes) constructor); the view takes
\* ownership of the bytes.  The caller opens only bytes of the index as it
\* is now: every other call drops the bytes written before it.
Open ==
    /\ out # <<>>
    /\ index' = OpenBuffer(out[1])
    /\ out' = <<>>
    /\ call' = Called("open")
    /\ found_occurrences' = <<>>
    /\ found_relations' = {}
    /\ UNCHANGED merged
    /\ UNCHANGED not_index_vars

\* load_in_memory on its own, as operator== calls it.
Load ==
    /\ index' = load_in_memory(index)
    /\ call' = Called("load")
    /\ found_occurrences' = <<>>
    /\ found_relations' = {}
    /\ out' = <<>>
    /\ UNCHANGED merged
    /\ UNCHANGED not_index_vars

Next ==
    \/ \E p \in PathIds, i \in IncludeIds, f \in FileIndices : Merge(p, i, f)
    \/ \E p \in PathIds : Remove(p)
    \/ \E o \in Offsets : LookupOffset(o)
    \/ \E s \in Symbols, k \in KindMasks : LookupSymbol(s, k)
    \/ Serialize
    \/ Open
    \/ Load

Spec == Init /\ [][Next]_vars

(***************************************************************************)
(* What the claims read off a state.                                       *)
(***************************************************************************)
Loaded == index.impl # <<>>
Impl == index.impl[1]

\* The bindings (TU, position in its include list) that name a canonical id.
BindingsOf(impl, id) ==
    {<<p, i>> \in (DOMAIN impl.header_contexts) \X (1 .. MaxBindings) :
        /\ i \in DOMAIN impl.header_contexts[p].includes
        /\ impl.header_contexts[p].includes[i].canonical_id = id}

\* Every binding recorded, over all TUs.
AllBindings(impl) ==
    {<<p, i>> \in (DOMAIN impl.header_contexts) \X (1 .. MaxBindings) :
        i \in DOMAIN impl.header_contexts[p].includes}

RECURSIVE SumSeq(_)
SumSeq(s) == IF s = <<>> THEN 0 ELSE Head(s) + SumSeq(Tail(s))

\* The occurrences an object stores, in memory or in its mapped buffer.
StoredOccurrences(self) ==
    IF self.impl # <<>> THEN DOMAIN self.impl[1].occurrences
    ELSE IF self.buffer # <<>>
         THEN {e.occurrence : e \in Range(self.buffer[1].occurrences)}
         ELSE {}

\* The relations an object stores for a symbol, in memory or in its mapped buffer.
StoredRelations(self, symbol) ==
    IF self.impl # <<>>
    THEN IF symbol \in DOMAIN self.impl[1].relations
         THEN DOMAIN self.impl[1].relations[symbol] ELSE {}
    ELSE IF self.buffer # <<>>
         THEN UNION {{r.relation : r \in Range(e.relations)} :
                        e \in {x \in Range(self.buffer[1].relations) : x.symbol = symbol}}
         ELSE {}

\* Two objects answer every lookup alike (the occurrences and relations handed
\* to the callback, as sets).
SameLookups(a, b) ==
    /\ \A o \in Offsets :
          Range(lookup_offset(a, o).found) = Range(lookup_offset(b, o).found)
    /\ \A s \in Symbols, k \in KindMasks :
          lookup_symbol(a, s, k).found = lookup_symbol(b, s, k).found

(***************************************************************************)
(* The claims.                                                             *)
(***************************************************************************)
\* C1: after any merge and remove calls, the ref count of every canonical id
\* equals the number of (TU, include position) bindings recorded that name it,
\* so the ref counts sum to the number of bindings over all TUs.
RefCountsMatchBindings ==
    Loaded =>
        /\ \A b \in AllBindings(Impl) :
              Impl.header_contexts[b[1]].includes[b[2]].canonical_id
                 < Len(Impl.canonical_ref_counts)
        /\ \A id \in 0 .. (Len(Impl.canonical_ref_counts) - 1) :
              Impl.canonical_ref_counts[id + 1] = Cardinality(BindingsOf(Impl, id))
        /\ SumSeq(Impl.canonical_ref_counts) = Cardinality(AllBindings(Impl))

\* C1 witness: a remove has just run and left one canonical id referenced once
\* and another referenced by nobody.
RemoveLeftOneReferenced ==
    /\ Loaded
    /\ call.op = "remove"
    /\ \E id \in 0 .. (Len(Impl.canonical_ref_counts) - 1) :
          Impl.canonical_ref_counts[id + 1] = 1
    /\ \E id \in 0 .. (Len(Impl.canonical_ref_counts) - 1) :
          Impl.canonical_ref_counts[id + 1] = 0

\* C2: in every state reachable by merge, remove and serialize-then-load, a
\* canonical id is in the tombstone set exactly when its ref count is zero.
TombstoneIffZeroRefCount ==
    Loaded =>
        \A id \in 0 .. (Impl.max_canonical_id - 1) :
            (id \in Impl.removed) <=> (Impl.canonical_ref_counts[id + 1] = 0)

\* C3: two merged inputs are bound to the same canonical id exactly when their
\* content hashes are equal; the hash-to-id cache is injective; ids are dense
\* from 0 with one ref-count slot each.
CanonicalIdsMatchHashes ==
    Loaded =>
        /\ \A a, b \in merged : (a.canonical_id = b.canonical_id) <=> (a.hash = b.hash)
        /\ \A m \in merged :
              /\ m.hash \in DOMAIN Impl.canonical_cache
              /\ Impl.canonical_cache[m.hash] = m.canonical_id
        /\ \A g, h \in DOMAIN Impl.canonical_cache :
              Impl.canonical_cache[g] = Impl.canonical_cache[h] => g = h
        /\ {Impl.canonical_cache[h] : h \in DOMAIN Impl.canonical_cache}
              = 0 .. (Impl.max_canonical_id - 1)
        /\ Len(Impl.canonical_ref_counts) = Impl.max_canonical_id

\* C3 witness: the same content was merged from both TUs and holds one
\* canonical id with ref count 2, next to a second id for the other content.
SameContentFromTwoTUs ==
    /\ Loaded
    /\ call.op = "merge"
    /\ Impl.max_canonical_id = 2
    /\ \E id \in 0 .. 1 :
          /\ Impl.canonical_ref_counts[id + 1] = 2
          /\ {b[1] : b \in BindingsOf(Impl, id)} = PathIds

\* C4: for a TU with no bindings, merge(tu, pos, idx) followed by remove(tu)
\* leaves the index answering every lookup as before and serializing to the
\* same bytes as before.
MergeThenRemoveRestores ==
    \A tu \in PathIds, pos \in IncludeIds, idx \in FileIndices :
        LET before == load_in_memory(index)
            after == remove(merge(index, tu, pos, idx), tu)
        IN  ContextAt(before.impl[1].header_contexts, tu).includes = <<>> =>
                /\ SameLookups(index, after)
                /\ Serializations(after.impl[1]) = Serializations(before.impl[1])

\* C5: after serialize completes the tombstone set is empty, and neither the
\* emitted cache nor an emitted occurrence or relation bitmap mentions a
\* canonical id that was tombstoned before the call.
SerializeDropsTombstones ==
    [][call'.op = "serialize" =>
          /\ index'.impl[1].removed = {}
          /\ \A e \in Range(out'[1].canonical_cache) :
                e.canonical_id \notin index.impl[1].removed
          /\ \A e \in Range(out'[1].occurrences) :
                Range(e.context) \cap index.impl[1].removed = {}
          /\ \A e \in Range(out'[1].relations) : \A r \in Range(e.relations) :
                Range(r.context) \cap index.impl[1].removed = {}]_vars

\* C6: serializing the index and loading the bytes back yields an index that
\* compares equal to the original (operator==) and answers every lookup alike.
RoundTripEqual ==
    Loaded =>
        \A bytes \in Serializations(Impl) :
            /\ Equal(index, OpenBuffer(bytes))
            /\ SameLookups(index, load_in_memory(OpenBuffer(bytes)))

\* C7: lookup(offset) passes to the callback every stored occurrence whose
\* range contains the offset; none is omitted.
LookupOffsetComplete ==
    call.op = "lookup_offset" =>
        \A o \in StoredOccurrences(index) :
            contains(o.range, call.offset) => o \in Range(found_occurrences)

\* C8: every occurrence lookup(offset) passes to the callback satisfies
\* range.begin <= offset < range.end; one whose range.end equals the offset is
\* never returned.
LookupOffsetSound ==
    call.op = "lookup_offset" =>
        \A i \in DOMAIN found_occurrences :
            /\ found_occurrences[i].range.begin <= call.offset
            /\ call.offset < found_occurrences[i].range.end

\* C8 witness: a lookup returned something while a stored occurrence ends
\* exactly at the queried offset.
LookupAtRangeEnd ==
    /\ call.op = "lookup_offset"
    /\ found_occurrences # <<>>
    /\ \E o \in StoredOccurrences(index) : o.range.end = call.offset

\* C9: lookup(symbol, kind mask) passes to the callback exactly the relations
\* stored for the symbol whose kind intersects the mask, in memory and mapped.
LookupSymbolFiltersKind ==
    call.op = "lookup_symbol" =>
        found_relations =
            {r \in StoredRelations(index, call.symbol) : KindIntersects(r.kind, call.kind)}

\* C10: for a state reached by merge calls, lookup(offset) on the in-memory
\* index returns the same occurrences as lookup(offset) on a read-only index
\* opened over the bytes serialize wrote for that state.
MappedLookupAgrees ==
    (call.op = "serialize" /\ Impl.removed = {} /\ Impl.occurrences_cache = <<>>) =>
        \A o \in Offsets :
            Range(lookup_offset(index, o).found)
               = Range(lookup_offset(OpenBuffer(out[1]), o).found)

\* The (include position, canonical id) bindings of each TU, without their order.
BindingSets(impl) ==
    [p \in DOMAIN impl.header_contexts |-> Range(impl.header_contexts[p].includes)]

\* Two indices hold the same bindings, canonical cache, occurrences and relations.
SameContent(a, b) ==
    /\ BindingSets(a) = BindingSets(b)
    /\ a.max_canonical_id = b.max_canonical_id
    /\ a.canonical_cache = b.canonical_cache
    /\ a.occurrences = b.occurrences
    /\ a.relations = b.relations

\* The include positions of two records merged in either order: one more than a
\* single merge draws from, so that two records can differ in position alone.
RecordIncludeIds == 0 .. MaxInclude

\* C11: two indices built from the same index by merging the same two records in
\* the two possible orders, and holding the same bindings, cache, occurrences
\* and relations, serialize to the same bytes (their hash maps granted the
\* same iteration order).
SerializeIgnoresMergeOrder ==
    \A tu1, tu2 \in PathIds, pos1, pos2 \in RecordIncludeIds, idx1, idx2 \in FileIndices :
        LET first == merge(merge(index, tu1, pos1, idx1), tu2, pos2, idx2).impl[1]
            second == merge(merge(index, tu2, pos2, idx2), tu1, pos1, idx1).impl[1]
        IN  SameContent(first, second) =>
                \A oo \in Perms(DOMAIN first.occurrences),
                   so \in Perms(DOMAIN first.relations) :
                    serialize(first, oo, so) = serialize(second, oo, so)

(***************************************************************************)
(* StringPool (src/src/Support/StringPool.cpp): a bump allocator and two   *)
(* intern sets, one of NUL-terminated strings and one of pointer arrays.   *)
(***************************************************************************)
\* The allocator never holds more than MaxAllocs blocks between two clears.
MaxAllocs == 3

\* The strings save_cstr is called with, as byte sequences (never empty: the
\* function asserts it).
Strs == {<<97>>, <<98>>, <<97, 98>>}

\* A pointer of the caller that points outside the pool.
CallerPtrs == {0}

\* The lengths of the lists save_cstr_list is called with (an argument vector
\* holds at least the driver).
ListLens == {1, 2}

\* The elements a stored StringRef or ArrayRef spans.  A reference is the
\* block it points at and its size; a block's address is its position in the
\* allocator.
Deref(allocator, ref) == SubSeq(allocator[ref.data], 1, ref.size)

\* allocator.Allocate followed by the copy: the new block is placed after
\* every block allocated before it.
Allocate(allocator, block) == Append(allocator, block)

\* A find that never hits.
find_str_never(self, str) == {}

\* pooled_strs.find(str): the stored references whose bytes equal str's
\* (DenseMapInfo<StringRef> compares size and bytes).
find_str(self, str) ==
    {ref \in self.pooled_strs : Deref(self.allocator, ref) = str}

\* pooled_str_lists.find(list): the stored references of the same size whose
\* pointers equal list's one by one (DenseMapInfo<ArrayRef<const char*>>::isEqual).
find_list(self, list) ==
    {ref \in self.pooled_str_lists : Deref(self.allocator, ref) = list}

\* StringPool::save_cstr(str): the pool afterwards and the reference returned.
save_cstr(self, str) ==
    LET it == find_str(self, str)
    IN  IF it # {}
        THEN [self |-> self, result |-> CHOOSE ref \in it : TRUE]
        ELSE LET size == Len(str)
                 allocator == Allocate(self.allocator, Append(str, 0))
                 cached == [data |-> Len(allocator), size |-> size]
             IN  [self |-> [self EXCEPT !.allocator = allocator,
                                        !.pooled_strs = @ \cup {cached}],
                  result |-> cached]

\* StringPool::save_cstr_list(list): the pool afterwards and the reference returned.
save_cstr_list(self, list) ==
    LET it == find_list(self, list)
    IN  IF it # {}
        THEN [self |-> self, result |-> CHOOSE ref \in it : TRUE]
        ELSE LET size == Len(list)
                 allocator == Allocate(self.allocator, list)
                 cached == [data |-> Len(allocator), size |-> size]
             IN  [self |-> [self EXCEPT !.allocator = allocator,
                                        !.pooled_str_lists = @ \cup {cached}],
                  result |-> cached]

\* StringPool::clear(): both sets emptied and the allocator reset.
clear(self) == NewStringPool

\* The pointers a caller can put in a list: the strings the pool returned to
\* it since the last clear, and its own.
KnownPtrs == {s.result.data : s \in saved_strs} \cup CallerPtrs

\* The pointer lists save_cstr_list is called with.
Lists == UNION {[1 .. n -> KnownPtrs] : n \in ListLens}

SaveCstr(str) ==
    LET done == save_cstr(pool, str)
    IN  /\ find_str(pool, str) # {} \/ Len(pool.allocator) < MaxAllocs
        /\ pool' = done.self
        /\ pool_call' = [op |-> "save_cstr", input |-> str,
                        hit |-> find_str(pool, str) # {}, result |-> <<done.result>>]
        /\ saved_strs' = saved_strs \cup {[input |-> str, result |-> done.result]}
        /\ UNCHANGED saved_lists
        /\ UNCHANGED not_pool_vars

SaveCstrList(list) ==
    LET done == save_cstr_list(pool, list)
    IN  /\ find_list(pool, list) # {} \/ Len(pool.allocator) < MaxAllocs
        /\ pool' = done.self
        /\ pool_call' = [op |-> "save_cstr_list", input |-> list,
                        hit |-> find_list(pool, list) # {}, result |-> <<done.result>>]
        /\ saved_lists' = saved_lists \cup {[input |-> list, result |-> done.result]}
        /\ UNCHANGED saved_strs
        /\ UNCHANGED not_pool_vars

\* clear() invalidates every reference returned before it.
Clear ==
    /\ pool' = clear(pool)
    /\ pool_call' = [op |-> "clear", input |-> <<>>, hit |-> FALSE, result |-> <<>>]
    /\ saved_strs' = {}
    /\ saved_lists' = {}
    /\ UNCHANGED not_pool_vars

PoolNext ==
    \/ \E str \in Strs : SaveCstr(str)
    \/ \E list \in Lists : SaveCstrList(list)
    \/ Clear

PoolSpec == Init /\ [][PoolNext]_vars

MaxFrames == 2

\* Bytes are one-character strings; CR and LF stand for '\r' and '\n'.
ContentLength ==
    <<"C", "o", "n", "t", "e", "n", "t", "-", "L", "e", "n", "g", "t", "h", ":", " ">>
ContentType ==
    <<"C", "o", "n", "t", "e", "n", "t", "-", "T", "y", "p", "e", ":", " ", "j", "CR", "LF">>
CRLF == <<"CR", "LF">>

\* The decimal digits, by value + 1.
Digits == <<"0", "1", "2", "3", "4", "5", "6", "7", "8", "9">>

\* llvm::json::parse: the value of a text (<<v>>), or an error (<<>>).
json_parse(text) ==
    IF text = <<"1">> THEN <<"number 1">>
    ELSE IF text = <<"{", "}">> THEN <<"object {}">>
    ELSE <<>>

\* The frames the client writes: header lines before and after the
\* Content-Length line, a payload of fewer than ten bytes, and the bytes of
\* all of it on the wire.  Two payloads are JSON texts, one is not.
Frames ==
    {[before |-> f[1], after |-> f[2], payload |-> f[3],
      bytes |-> f[1] \o ContentLength \o <<Digits[Len(f[3]) + 1]>> \o CRLF
                   \o f[2] \o CRLF \o f[3]] :
        f \in {<<<<>>, <<>>, <<"1">>>>,
               <<<<>>, <<>>, <<"{", "}">>>>,
               <<<<>>, <<>>, <<"}">>>>,
               <<<<>>, ContentType, <<"1">>>>,
               <<ContentType, <<>>, <<"1">>>>}}

\* StringRef::consume_front: the rest of the message after the prefix (<<r>>),
\* or nothing (<<>>) when the message does not start with it.
consume_front(message, prefix) ==
    IF Len(message) >= Len(prefix) /\ SubSeq(message, 1, Len(prefix)) = prefix
    THEN <<SubSeq(message, Len(prefix) + 1, Len(message))>>
    ELSE <<>>

\* StringRef::consumeInteger(10, length): the leading digits are consumed into
\* length; it fails when the message starts with no digit.
RECURSIVE consumeInteger(_, _, _)
consumeInteger(message, length, consumed) ==
    IF message # <<>> /\ Head(message) \in Range(Digits)
    THEN LET digit == (CHOOSE i \in DOMAIN Digits : Digits[i] = Head(message)) - 1
         IN  consumeInteger(Tail(message), 10 * length + digit, TRUE)
    ELSE [error |-> ~consumed, length |-> length, rest |-> message]

\* The header parse of on_read: the payload and what follows it (<<r>>), or
\* nothing (<<>>) when the buffer does not start with a complete frame.
parse_header(message) ==
    LET named == consume_front(message, ContentLength)
    IN  IF named = <<>> THEN <<>>
        ELSE LET number == consumeInteger(named[1], 0, FALSE)
                 body == consume_front(number.rest, CRLF \o CRLF)
             IN  IF number.error \/ body = <<>> \/ Len(body[1]) < number.length
                 THEN <<>>
                 ELSE <<[result |-> SubSeq(body[1], 1, number.length),
                         rest |-> SubSeq(body[1], number.length + 1, Len(body[1]))]>>

\* An on_read that empties the buffer once it has dispatched a message.
on_read_clear_buffer(self, bytes) ==
    LET appended == self.buffer \o bytes
        parsed == parse_header(appended)
    IN  IF parsed = <<>>
        THEN [self EXCEPT !.buffer = appended]
        ELSE LET input == json_parse(parsed[1].result)
             IN  IF input = <<>>
                 THEN [self EXCEPT !.buffer = appended, !.state = "fatal"]
                 ELSE [self EXCEPT !.buffer = <<>>,
                                   !.dispatched = Append(@, input[1])]

\* on_read(stream, nread, buf) with nread > 0: the buffer, the dispatched
\* values and the state of the process afterwards.
on_read(self, bytes) ==
    LET appended == self.buffer \o bytes
        parsed == parse_header(appended)
    IN  IF parsed = <<>>
        THEN [self EXCEPT !.buffer = appended]
        ELSE LET input == json_parse(parsed[1].result)
             IN  IF input = <<>>
                 THEN [self EXCEPT !.buffer = appended, !.state = "fatal"]
                 ELSE [self EXCEPT !.buffer = parsed[1].rest,
                                   !.dispatched = Append(@, input[1])]

\* The client writes one more frame to the stream.
ClientWrite(frame) ==
    /\ net_state = "reading"
    /\ Len(sent) < MaxFrames
    /\ sent' = Append(sent, frame)
    /\ wire' = wire \o frame.bytes
    /\ UNCHANGED <<buffer, dispatched, net_state>>
    /\ UNCHANGED not_net_vars

\* A read delivers the next n bytes of the stream.
OnRead(n) ==
    LET done == on_read([buffer |-> buffer, dispatched |-> dispatched, state |-> net_state],
                        SubSeq(wire, 1, n))
    IN  /\ net_state = "reading"
        /\ wire' = SubSeq(wire, n + 1, Len(wire))
        /\ buffer' = done.buffer
        /\ dispatched' = done.dispatched
        /\ net_state' = done.state
        /\ UNCHANGED sent
        /\ UNCHANGED not_net_vars

\* The client closed the stream: on_read is called with UV_EOF once every
\* byte written has been delivered, and stops reading.
OnReadEof ==
    /\ net_state = "reading"
    /\ wire = <<>>
    /\ net_state' = "closed"
    /\ UNCHANGED <<wire, sent, buffer, dispatched>>
    /\ UNCHANGED not_net_vars

\* A read failed: on_read is called with a negative nread other than UV_EOF.
OnReadError ==
    /\ net_state = "reading"
    /\ net_state' = "fatal"
    /\ UNCHANGED <<wire, sent, buffer, dispatched>>
    /\ UNCHANGED not_net_vars

NetNext ==
    \/ \E frame \in Frames : ClientWrite(frame)
    \/ \E n \in 1 .. Len(wire) : OnRead(n)
    \/ OnReadEof
    \/ OnReadError

NetSpec == Init /\ [][NetNext]_vars

\* The number of bytes of the first k frames written.
RECURSIVE BytesUpTo(_)
BytesUpTo(k) == IF k = 0 THEN 0 ELSE BytesUpTo(k - 1) + Len(sent[k].bytes)

\* The number of bytes the reads have delivered.
Delivered == BytesUpTo(Len(sent)) - Len(wire)

\* The frames written whose last byte has been delivered.
CompleteFrames == {k \in DOMAIN sent : BytesUpTo(k) <= Delivered}

\* A frame whose header block is the Content-Length line alone.
Plain(frame) == frame.before = <<>> /\ frame.after = <<>>

\* C13: however the stream is split across reads, once a read has returned every
\* frame received in full has been dispatched, once and in arrival order: no
\* complete frame waits in the buffer for bytes that may never come.
CompleteFramesDispatched ==
    (net_state = "reading" /\ \A k \in DOMAIN sent : Plain(sent[k])) =>
        /\ Len(dispatched) = Cardinality(CompleteFrames)
        /\ \A k \in DOMAIN dispatched : <<dispatched[k]>> = json_parse(sent[k].payload)

\* C14: a read that leaves a frame with header lines other than Content-Length
\* complete at the front of the buffer dispatches it.
OtherHeadersTolerated ==
    [][(/\ Len(wire') < Len(wire)
        /\ net_state' = "reading"
        /\ Len(dispatched) + 1 \in CompleteFrames'
        /\ ~Plain(sent[Len(dispatched) + 1]))
       => Len(dispatched') = Len(dispatched) + 1]_vars

\* The header `Content-Length: n` followed by the empty line, for n < 10.
HeaderOf(n) == ContentLength \o <<Digits[n + 1]>> \o CRLF \o CRLF

\* C38: a read dispatches a message only when the buffer, with the bytes read
\* appended, starts with a complete header and at least n payload bytes; the
\* value dispatched is that of exactly the first n payload bytes, and exactly
\* the header and those n bytes leave the buffer, so what was received of the
\* next frame stays at its head; otherwise the buffer is only appended to.
DispatchTakesExactlyOneFrame ==
    [][Len(wire') < Len(wire) =>
         LET appended == buffer \o SubSeq(wire, 1, Len(wire) - Len(wire'))
         IN  IF Len(dispatched') > Len(dispatched)
             THEN \E n \in 0 .. 9 :
                    /\ Len(appended) >= Len(HeaderOf(n)) + n
                    /\ SubSeq(appended, 1, Len(HeaderOf(n))) = HeaderOf(n)
                    /\ json_parse(SubSeq(appended, Len(HeaderOf(n)) + 1, Len(HeaderOf(n)) + n))
                         = <<dispatched'[Len(dispatched')]>>
                    /\ SubSeq(dispatched', 1, Len(dispatched)) = dispatched
                    /\ Len(dispatched') = Len(dispatched) + 1
                    /\ buffer' = SubSeq(appended, Len(HeaderOf(n)) + n + 1, Len(appended))
             ELSE /\ buffer' = appended
                  /\ dispatched' = dispatched]_vars

\* One read delivered two frames: the first was dispatched and every byte of
\* the second is in the buffer.
FollowingFrameKept ==
    /\ Len(sent) = 2
    /\ Len(dispatched) = 1
    /\ wire = <<>>
    /\ buffer = sent[2].bytes

(***************************************************************************)
(* The JSON-RPC dispatcher (src/src/Server/Server.cpp): on_receive runs as *)
(* one coroutine per inbound message on the cooperative loop; it suspends  *)
(* while its handler runs and while its response is written.               *)
(***************************************************************************)
\* The client sends at most MaxMessages messages.
MaxMessages == 2
\* The server sends at most MaxRequests requests of its own.
MaxRequests == 2

\* The methods registered by Server::Server() that the client uses here.
callbacks == {"initialize", "initialized", "textDocument/hover"}

\* The inbound values: requests (with an id) and notifications (without), with
\* a registered method, an unregistered one or none (<<>>), and a value that
\* is not an object.  The client numbers its messages: the k-th carries id k.
Values ==
    {[object |-> TRUE, has_id |-> TRUE, method |-> <<"initialize">>],
     [object |-> TRUE, has_id |-> TRUE, method |-> <<"textDocument/hover">>],
     [object |-> TRUE, has_id |-> TRUE, method |-> <<"textDocument/unknown">>],
     [object |-> TRUE, has_id |-> TRUE, method |-> <<>>],
     [object |-> TRUE, has_id |-> FALSE, method |-> <<"initialized">>],
     [object |-> TRUE, has_id |-> FALSE, method |-> <<"textDocument/unknown">>],
     [object |-> FALSE, has_id |-> FALSE, method |-> <<>>]}

\* Server::response(id, result).
response(id, result) == [kind |-> "result", id |-> id, body |-> result]

\* Server::response(id, code, message).
error_response(id, code, message) ==
    [kind |-> "error", id |-> id, body |-> [code |-> code, message |-> message]]

\* A request that writes the id counter as it stands.
request_same_id(self, method) ==
    [self |-> self,
     message |-> [kind |-> "request", id |-> self.server_request_id, body |-> method]]

\* Server::request(method, params): the counter is advanced and its new value sent.
request(self, method) ==
    LET id == self.server_request_id + 1
    IN  [self |-> [self EXCEPT !.server_request_id = id],
         message |-> [kind |-> "request", id |-> id, body |-> method]]

\* Server::registerCapacity(id, method, registerOptions).
registerCapacity(self) == request(self, "client/registerCapability")

\* A response that carries the id of the message that arrived last.
response_latest_id(k) == response(Len(received), [method |-> received[k].method[1], of |-> k])

\* The response on_receive writes for the request of arrival number k once its
\* handler has returned: the id held in the coroutine's own frame, and the
\* handler's result.
response_of(k) == response(tasks[k].id[1], [method |-> received[k].method[1], of |-> k])

\* Server::on_receive(value) up to its first suspension: the arrival number is k.
Receive(value) ==
    LET k == Len(received) + 1
        id == IF value.has_id THEN <<k>> ELSE <<>>
    IN  /\ server.running
        /\ Len(received) < MaxMessages
        /\ received' = Append(received, value)
        /\ IF ~value.object
           THEN \* LOG_FATAL: the process ends, and every coroutine with it.
                /\ server' = [server EXCEPT !.running = FALSE]
                /\ tasks' = EmptyMap
                /\ UNCHANGED <<written, handled>>
           ELSE IF value.method = <<>>
           THEN \* No method: an error response when there is an id, then return.
                /\ IF id # <<>>
                   THEN /\ written' = Append(written,
                               error_response(id[1], "InvalidRequest", "Method not found"))
                        /\ tasks' = Put(tasks, k, [pc |-> "write", id |-> id])
                   ELSE UNCHANGED <<written, tasks>>
                /\ UNCHANGED <<server, handled>>
           ELSE IF value.method[1] \notin callbacks
           THEN \* Not registered: logged and ignored.
                UNCHANGED <<server, tasks, written, handled>>
           ELSE \* Registered: the handler is invoked and awaited.
                /\ server' = IF id # <<>>
                             THEN [server EXCEPT !.client_request_id = @ + 1]
                             ELSE server
                /\ tasks' = Put(tasks, k, [pc |-> "handler", id |-> id])
                /\ handled' = handled \cup {k}
                /\ UNCHANGED written
        /\ UNCHANGED completed
        /\ UNCHANGED not_server_vars

\* The handler awaited by coroutine k returns: a request writes its response
\* and waits for the write, a notification is done.
HandlerDone(k) ==
    /\ server.running
    /\ k \in DOMAIN tasks
    /\ tasks[k].pc = "handler"
    /\ completed' = Append(completed, k)
    /\ IF tasks[k].id # <<>>
       THEN /\ written' = Append(written, response_of(k))
            /\ tasks' = [tasks EXCEPT ![k].pc = "write"]
       ELSE /\ tasks' = [j \in (DOMAIN tasks) \ {k} |-> tasks[j]]
            /\ UNCHANGED written
    /\ UNCHANGED <<server, received, handled>>
    /\ UNCHANGED not_server_vars

\* The write awaited by coroutine k completes: on_receive returns.
WriteDone(k) ==
    /\ server.running
    /\ k \in DOMAIN tasks
    /\ tasks[k].pc = "write"
    /\ tasks' = [j \in (DOMAIN tasks) \ {k} |-> tasks[j]]
    /\ UNCHANGED <<server, written, received, handled, completed>>
    /\ UNCHANGED not_server_vars

\* The server sends a request of its own.
Request(method) ==
    LET done == request(server, method)
    IN  /\ server.running
        /\ server.server_request_id < MaxRequests
        /\ server' = done.self
        /\ written' = Append(written, done.message)
        /\ UNCHANGED <<tasks, received, handled, completed>>
        /\ UNCHANGED not_server_vars

RegisterCapacity ==
    LET done == registerCapacity(server)
    IN  /\ server.running
        /\ server.server_request_id < MaxRequests
        /\ server' = done.self
        /\ written' = Append(written, done.message)
        /\ UNCHANGED <<tasks, received, handled, completed>>
        /\ UNCHANGED not_server_vars

ServerNext ==
    \/ \E value \in Values : Receive(value)
    \/ \E k \in 1 .. MaxMessages : HandlerDone(k)
    \/ \E k \in 1 .. MaxMessages : WriteDone(k)
    \/ Request("workspace/configuration")
    \/ RegisterCapacity

ServerSpec == Init /\ [][ServerNext]_vars

\* The positions in `written` of the responses to the message of arrival number k.
ResponsesTo(k) ==
    {i \in DOMAIN written : written[i].kind # "request" /\ written[i].id = k}

\* The ids of the result responses written, in order.
RECURSIVE ResultIds(_)
ResultIds(messages) ==
    IF messages = <<>> THEN <<>>
    ELSE IF Head(messages).kind = "result"
         THEN <<Head(messages).id>> \o ResultIds(Tail(messages))
         ELSE ResultIds(Tail(messages))

\* The arrival numbers of a sequence that carry an id.
RECURSIVE WithId(_)
WithId(arrivals) ==
    IF arrivals = <<>> THEN <<>>
    ELSE IF received[Head(arrivals)].has_id
         THEN <<Head(arrivals)>> \o WithId(Tail(arrivals))
         ELSE WithId(Tail(arrivals))

\* The ids of the requests the server sent, in order.
RECURSIVE RequestIds(_)
RequestIds(messages) ==
    IF messages = <<>> THEN <<>>
    ELSE IF Head(messages).kind = "request"
         THEN <<Head(messages).id>> \o RequestIds(Tail(messages))
         ELSE RequestIds(Tail(messages))

\* C15: once the on_receive coroutine of a message that carries an id has
\* returned, exactly one response with that id has been written, whether the
\* method is registered, not registered or missing (and never more than one).
EveryRequestAnswered ==
    server.running =>
        \A k \in DOMAIN received :
            (received[k].object /\ received[k].has_id) =>
                /\ Cardinality(ResponsesTo(k)) <= 1
                /\ k \notin DOMAIN tasks => Cardinality(ResponsesTo(k)) = 1

\* C16: the result responses are written in the order the handlers finished,
\* and each carries the id of the request whose handler produced its result.
ResponsesInCompletionOrder ==
    /\ ResultIds(written) = WithId(completed)
    /\ \A i \in DOMAIN written :
          written[i].kind = "result" =>
              /\ received[written[i].body.of].has_id
              /\ written[i].id = written[i].body.of
              /\ written[i].body.method = received[written[i].id].method[1]

\* C16 witness: two requests were in flight at once, the one that arrived
\* second finished first, and both responses are written.
SecondAnsweredFirst ==
    /\ Len(completed) >= 2
    /\ completed[1] = 2
    /\ completed[2] = 1
    /\ ResultIds(written) = <<2, 1>>

\* C17: a request other than initialize that arrives before the initialized
\* notification has been handled (here: before one has even arrived) is
\* rejected: its handler is not invoked and the only response it gets is an
\* error.
EarlyRequestsRejected ==
    \A k \in DOMAIN received :
        (/\ received[k].object
         /\ received[k].has_id
         /\ received[k].method # <<"initialize">>
         /\ \A j \in 1 .. (k - 1) : received[j].method # <<"initialized">>) =>
            /\ k \notin handled
            /\ \A i \in ResponsesTo(k) : written[i].kind = "error"

\* C18: the ids of the requests the server sends are strictly increasing in
\* send order.
RequestIdsIncrease ==
    LET ids == RequestIds(written)
    IN  \A i, j \in DOMAIN ids : i < j => ids[i] < ids[j]

\* C18 witness: the server has sent a plain request and a registerCapability
\* request, with a response of its own written in between.
TwoRequestsSent ==
    /\ Len(RequestIds(written)) = 2
    /\ \E i, j \in DOMAIN written :
          /\ i < j
          /\ written[i].kind = "request" /\ written[i].body = "workspace/configuration"
          /\ written[j].kind = "request" /\ written[j].body = "client/registerCapability"
          /\ \E r \in (i + 1) .. (j - 1) : written[r].kind = "result"

(***************************************************************************)
(* The open-file manager (src/src/Server/Server.cpp, ActiveFileManager): a *)
(* recency list of (path, file) nodes and an index from path to node.      *)
(***************************************************************************)
\* The paths of the documents the client opens.
Paths == {"a.cpp", "b.cpp", "c.cpp"}

\* The files add is called with; get_or_add tracks a default OpenFile{}.
OpenFiles == {"OpenFile{version 1}"}

\* An insertion that never makes room.
lru_put_no_evict(self, path, file) ==
    LET node == CHOOSE n \in 1 .. (Len(self.items) + 1) : n \notin Range(self.items)
    IN  [self EXCEPT !.items = <<node>> \o @,
                     !.nodes = Put(@, node, [first |-> path, second |-> file]),
                     !.index = IF path \in DOMAIN @ THEN @ ELSE Put(@, path, node)]

\* ActiveFileManager::lru_put_impl(path, file): at capability, the node at the
\* back is dropped and its path erased from the index; then a new node goes to
\* the front and is entered in the index (insert keeps an entry already there).
lru_put_impl(self, path, file) ==
    LET back == self.items[Len(self.items)]
        room == IF Len(self.items) >= self.capability
                THEN [self EXCEPT
                        !.index = [q \in (DOMAIN @) \ {self.nodes[back].first} |-> @[q]],
                        !.items = SubSeq(@, 1, Len(@) - 1),
                        !.nodes = [n \in (DOMAIN @) \ {back} |-> @[n]]]
                ELSE self
        node == CHOOSE n \in 1 .. (Len(room.items) + 1) : n \notin Range(room.items)
    IN  [room EXCEPT !.items = <<node>> \o @,
                     !.nodes = Put(@, node, [first |-> path, second |-> file]),
                     !.index = IF path \in DOMAIN @ THEN @ ELSE Put(@, path, node)]

\* A splice that leaves the list as it is.
splice_nowhere(self, node) == self

\* items.splice(items.begin(), items, it): the node moves to the front.
splice(self, node) ==
    [self EXCEPT !.items = <<node>> \o SelectSeq(@, LAMBDA n : n # node)]

\* ActiveFileManager::get_or_add(path).
get_or_add(self, path) ==
    IF path \notin DOMAIN self.index
    THEN lru_put_impl(self, path, "OpenFile{}")
    ELSE splice(self, self.index[path])

\* ActiveFileManager::add(path, file).
add(self, path, file) ==
    IF path \notin DOMAIN self.index
    THEN lru_put_impl(self, path, file)
    ELSE splice([self EXCEPT !.nodes[self.index[path]].second = file], self.index[path])

\* The paths tracked, front to back.
TrackedPaths(self) == [i \in DOMAIN self.items |-> self.nodes[self.items[i]].first]

\* What a call leaves in the history: the path moves to the front of the
\* accesses, and the path that left the list (if one did) is noted.
Accessed(path, after) ==
    /\ recency' = <<path>> \o SelectSeq(recency, LAMBDA q : q # path)
    /\ evicted' = LET gone == Range(TrackedPaths(opening_files)) \ Range(TrackedPaths(after))
                  IN  IF gone = {} THEN <<>> ELSE <<CHOOSE q \in gone : TRUE>>

\* set_capability, as on_initialize calls it: before any file is tracked.
SetCapability(capability) ==
    /\ opening_files.items = <<>>
    /\ opening_files' = [opening_files EXCEPT !.capability = capability]
    /\ UNCHANGED <<recency, evicted, commands>>
    /\ UNCHANGED not_lru_vars

GetOrAdd(path) ==
    /\ opening_files' = get_or_add(opening_files, path)
    /\ Accessed(path, opening_files')
    /\ UNCHANGED commands
    /\ UNCHANGED not_lru_vars

Add(path, file) ==
    /\ opening_files' = add(opening_files, path, file)
    /\ Accessed(path, opening_files')
    /\ UNCHANGED commands
    /\ UNCHANGED not_lru_vars

\* Server::on_execute_command("workspace/constructionInfo") up to its first
\* suspension: the file is fetched with get_or_add, the handler keeps the
\* shared pointer, finds no AST and awaits build_ast.
ExecuteCommand(path) ==
    /\ commands[path] = "idle"
    /\ opening_files' = get_or_add(opening_files, path)
    /\ Accessed(path, opening_files')
    /\ commands' = [commands EXCEPT ![path] = "build_ast"]
    /\ UNCHANGED not_lru_vars

\* The build is done: the handler takes the file's ast_built_lock and, holding
\* it, suspends in `co_await indexer.references(...)`.
AstBuilt(path) ==
    /\ commands[path] = "build_ast"
    /\ commands' = [commands EXCEPT ![path] = "ast_built_lock"]
    /\ UNCHANGED <<opening_files, recency, evicted>>
    /\ UNCHANGED not_lru_vars

\* The references are there: the handler returns and its guard releases the lock.
ExecuteCommandDone(path) ==
    /\ commands[path] = "ast_built_lock"
    /\ commands' = [commands EXCEPT ![path] = "idle"]
    /\ UNCHANGED <<opening_files, recency, evicted>>
    /\ UNCHANGED not_lru_vars

LruNext ==
    \/ \E capability \in 1 .. MaxCapability : SetCapability(capability)
    \/ \E path \in Paths : GetOrAdd(path)
    \/ \E path \in Paths, file \in OpenFiles : Add(path, file)
    \/ \E path \in Paths : ExecuteCommand(path)
    \/ \E path \in Paths : AstBuilt(path)
    \/ \E path \in Paths : ExecuteCommandDone(path)

LruSpec == Init /\ [][LruNext]_vars

\* The position of a path in the history of accesses (1 is the most recent).
AccessRank(path) == CHOOSE i \in DOMAIN recency : recency[i] = path

\* C19: the number of tracked files never exceeds the capability, and the
\* recency list and the path index hold the same paths, each once, with every
\* index entry pointing at the node of its path.
TrackedWithinCapability ==
    LET self == opening_files
        paths == TrackedPaths(self)
    IN  /\ Len(self.items) <= self.capability
        /\ \A i, j \in DOMAIN paths : i # j => paths[i] # paths[j]
        /\ Range(paths) = DOMAIN self.index
        /\ \A q \in DOMAIN self.index :
              /\ self.index[q] \in Range(self.items)
              /\ self.nodes[self.index[q]].first = q

\* C19 witness: at capability 2 with two files tracked, a call for a third
\* path has just evicted one.
EvictedAtCapability ==
    /\ opening_files.capability = 2
    /\ Len(opening_files.items) = 2
    /\ evicted # <<>>

\* C20: the recency list is ordered by most recent access, the path of the
\* last call at the front, and an evicted entry was accessed longer ago than
\* every entry that stayed.
OrderedByRecency ==
    LET paths == TrackedPaths(opening_files)
    IN  /\ paths = SelectSeq(recency, LAMBDA q : q \in Range(paths))
        /\ recency # <<>> => paths # <<>> /\ paths[1] = recency[1]
        /\ evicted # <<>> =>
              /\ evicted[1] \notin Range(paths)
              /\ \A i \in DOMAIN paths : AccessRank(paths[i]) < AccessRank(evicted[1])

\* C20 witness: two files are tracked, the one at the back is not the one
\* tracked first but was accessed again since, and a third was evicted.
EvictedLeastRecent ==
    /\ Len(opening_files.items) = 2
    /\ evicted # <<>>
    /\ opening_files.items[2] < opening_files.items[1]
    /\ opening_files.nodes[opening_files.items[2]].second = "OpenFile{version 1}"

\* C21: an entry whose ast_built_lock is held is never evicted: a path that is
\* tracked while a handler holds its file's lock is still tracked after every
\* call.
HeldNeverEvicted ==
    [][\A path \in Paths :
          /\ commands[path] = "ast_built_lock"
          /\ path \in DOMAIN opening_files.index
          => path \in DOMAIN opening_files'.index]_vars

(***************************************************************************)
(* The build scheduler (src/src/Server/Scheduler.cpp): buildAST coroutines *)
(* on the loop thread, PCH and AST compilations on the worker pool.        *)
(***************************************************************************)
\* The most buildAST and codeComplete calls of one run.
MaxBuilds == 3

\* Document texts as <<preamble, body>>, and the compile commands a lookup yields.
Contents == {<<"#include <a>", "int x;">>, <<"#include <a>", "int y;">>, <<"#include <b>", "int x;">>}
Commands == {"clang++ -std=c++20", "clang++ -std=c++23"}

\* PCHInfo::needUpdate(content): the text up to the recorded bound differs.
needUpdate(info, content) == info.preamble # content[1]

\* The positions at which a build is in progress: after `isIdle = false`,
\* awaiting the PCH compilation (line 30) or the AST compilation (line 110).
InProgress == {"updatePCH", "compile"}

\* buildAST from line 74 to its next suspension: the file is marked busy, the
\* command is looked up, updatePCH either starts a PCH build (new entry, or
\* needUpdate) or reuses the stored one, and then the AST compilation is
\* scheduled with pchs.at(filepath).
resume(fs, bs, k, command) ==
    LET path == bs[k].path
        reuse == path \in DOMAIN pchs /\ ~needUpdate(pchs[path], bs[k].content)
    IN  /\ files' = [fs EXCEPT ![path].isIdle = FALSE]
        /\ pchs' = IF path \in DOMAIN pchs THEN pchs
                   ELSE Put(pchs, path, [preamble |-> "", command |-> ""])
        /\ builds' = [bs EXCEPT ![k].command = command,
                                ![k].pc = IF reuse THEN "compile" ELSE "updatePCH",
                                ![k].pch = IF reuse THEN <<pchs[path]>> ELSE <<>>]

\* Scheduler::add / Scheduler::update -> buildAST(filepath, content) up to its
\* first suspension: a build of a file that is not idle queues itself in
\* `waitings`; any other goes on at once.
BuildAST(path, content, command) ==
    LET k == Len(builds) + 1
        fs == IF path \in DOMAIN files THEN files
              ELSE Put(files, path, [isIdle |-> TRUE, waitings |-> <<>>, content |-> <<>>])
        bs == Append(builds, [path |-> path, content |-> content, command |-> "",
                              pc |-> "waiting", pch |-> <<>>,
                              behind |-> {j \in DOMAIN builds :
                                            /\ builds[j].path = path
                                            /\ builds[j].pc \in InProgress}])
    IN  /\ k <= MaxBuilds
        /\ IF ~fs[path].isIdle
           THEN /\ files' = [fs EXCEPT ![path].waitings = Append(@, k)]
                /\ builds' = bs
                /\ UNCHANGED pchs
           ELSE resume(fs, bs, k, command)
        /\ UNCHANGED not_sched_vars

\* The positions of a codeComplete request: suspended in `waitings`, handed
\* to async::schedule, awaiting its PCH compilation, awaiting the completion
\* task, and returned.
Completing == {"cc_waiting", "cc_scheduled", "cc_updatePCH", "cc_run", "cc_done"}

\* codeComplete from line 145 to its next suspension: the stored content of
\* the file is read, the command is looked up, updatePCH either starts a PCH
\* build or reuses the stored one, and the completion task is scheduled.
resume_complete(bs, k, command) ==
    LET path == bs[k].path
        content == IF files[path].content = <<>> THEN <<"", "">> ELSE files[path].content[1]
        reuse == path \in DOMAIN pchs /\ ~needUpdate(pchs[path], content)
    IN  /\ pchs' = IF path \in DOMAIN pchs THEN pchs
                   ELSE Put(pchs, path, [preamble |-> "", command |-> ""])
        /\ builds' = [bs EXCEPT ![k].command = command,
                                ![k].content = content,
                                ![k].pc = IF reuse THEN "cc_run" ELSE "cc_updatePCH",
                                ![k].pch = IF reuse THEN <<pchs[path]>> ELSE <<>>]
        /\ UNCHANGED files

\* Scheduler::codeComplete(filepath, line, column) up to its first
\* suspension: the file must be known; with `isIdle` set the request queues
\* itself in `waitings`, otherwise it goes on at once.
CodeComplete(path, command) ==
    LET k == Len(builds) + 1
        bs == Append(builds, [path |-> path, content |-> <<"", "">>, command |-> "",
                              pc |-> "cc_waiting", pch |-> <<>>, behind |-> {}])
    IN  /\ k <= MaxBuilds
        /\ path \in DOMAIN files
        /\ IF files[path].isIdle
           THEN /\ files' = [files EXCEPT ![path].waitings = Append(@, k)]
                /\ builds' = bs
                /\ UNCHANGED pchs
           ELSE resume_complete(bs, k, command)
        /\ UNCHANGED not_sched_vars

\* The loop resumes a waiter that a finished build handed to async::schedule.
Wake(k, command) ==
    /\ \/ builds[k].pc = "scheduled" /\ resume(files, builds, k, command)
       \/ builds[k].pc = "cc_scheduled" /\ resume_complete(builds, k, command)
    /\ UNCHANGED not_sched_vars

\* The PCH compilation of request k is back from the worker pool: updatePCH
\* stores the new PCHInfo and the caller (buildAST or codeComplete) schedules
\* its own task with it.
PCHDone(k) ==
    LET info == [preamble |-> builds[k].content[1], command |-> builds[k].command]
    IN  /\ builds[k].pc \in {"updatePCH", "cc_updatePCH"}
        /\ pchs' = [pchs EXCEPT ![builds[k].path] = info]
        /\ builds' = [builds EXCEPT ![k].pc = IF @ = "updatePCH" THEN "compile" ELSE "cc_run",
                                    ![k].pch = <<info>>]
        /\ UNCHANGED files
        /\ UNCHANGED not_sched_vars

\* The AST compilation of build k is back: the result is stored, the first
\* waiter (if any) is handed to async::schedule, and the file is marked idle.
CompileDone(k) ==
    LET path == builds[k].path
        queue == files[path].waitings
    IN  /\ builds[k].pc = "compile"
        /\ files' = [files EXCEPT ![path] = [isIdle |-> TRUE,
                                            waitings |-> IF queue = <<>> THEN <<>> ELSE Tail(queue),
                                            content |-> <<builds[k].content>>]]
        /\ builds' = [j \in DOMAIN builds |->
                        IF j = k THEN [builds[j] EXCEPT !.pc = "done"]
                        ELSE IF queue # <<>> /\ j = Head(queue)
                             THEN [builds[j] EXCEPT
                                      !.pc = IF @ = "waiting" THEN "scheduled" ELSE "cc_scheduled"]
                             ELSE builds[j]]
        /\ UNCHANGED pchs
        /\ UNCHANGED not_sched_vars

\* The completion task of request k is back: codeComplete returns its result.
CompleteDone(k) ==
    /\ builds[k].pc = "cc_run"
    /\ builds' = [builds EXCEPT ![k].pc = "cc_done"]
    /\ UNCHANGED <<files, pchs>>
    /\ UNCHANGED not_sched_vars

SchedNext ==
    \/ \E path \in {"a.cpp"}, content \in Contents, command \in Commands :
          BuildAST(path, content, command)
    \/ \E k \in DOMAIN builds, command \in Commands : Wake(k, command)
    \/ \E k \in DOMAIN builds : PCHDone(k)
    \/ \E k \in DOMAIN builds : CompileDone(k)
    \/ \E path \in {"a.cpp"}, command \in Commands : CodeComplete(path, command)
    \/ \E k \in DOMAIN builds : CompleteDone(k)

SchedSpec == Init /\ [][SchedNext]_vars

\* C22: for each file at most one AST build is in progress at a time.
OneBuildPerFile ==
    \A j, k \in DOMAIN builds :
        /\ builds[j].path = builds[k].path
        /\ builds[j].pc \in InProgress
        /\ builds[k].pc \in InProgress
        => j = k

\* C23: a build that has started left no build of its file uncancelled that
\* was in flight when its change arrived, and no earlier change of the file is
\* still waiting for its turn.
InFlightBuildCancelled ==
    \A k \in DOMAIN builds :
        builds[k].pc \in InProgress \cup {"done"} =>
            /\ \A j \in builds[k].behind : builds[j].pc = "cancelled"
            /\ \A j \in 1 .. (k - 1) :
                  (builds[j].path = builds[k].path /\ builds[j].pc \notin Completing)
                     => builds[j].pc \in InProgress \cup {"done"}

\* C24: the preamble handed to the AST compilation was built from the same
\* text up to the bound and with the same compile command as this build's.
PreambleMatchesBuild ==
    \A k \in DOMAIN builds :
        builds[k].pc \in {"compile", "done"} =>
            /\ builds[k].pch[1].preamble = builds[k].content[1]
            /\ builds[k].pch[1].command = builds[k].command

\* C36: whenever no build of a file is running or waiting, the content
\* stored for the file is that of the build requested last.
LastRequestedBuildStored ==
    \A path \in DOMAIN files :
        LET requested == {k \in DOMAIN builds :
                             builds[k].path = path /\ builds[k].pc \notin Completing}
            last == CHOOSE k \in requested : \A j \in requested : j <= k
        IN  (requested # {} /\ \A k \in requested : builds[k].pc = "done")
                => files[path].content = <<builds[last].content>>

\* C37: a completion request is suspended only while a build of its file is
\* in flight, and runs only while none is.
CompletionWaitsForBuild ==
    \A k \in DOMAIN builds :
        LET building == \E j \in DOMAIN builds :
                            builds[j].path = builds[k].path /\ builds[j].pc \in InProgress
        IN  /\ builds[k].pc = "cc_waiting" => building
            /\ builds[k].pc \in {"cc_updatePCH", "cc_run"} => ~building

(***************************************************************************)
(* The project indexer (src/src/Server/Indexer.cpp): index_all queues the  *)
(* files of the compilation database and starts schedule_next loops, which *)
(* hand each queued path to an index task in a slot of `workings`.         *)
(***************************************************************************)
\* The most index_all calls of one run.
MaxIndexAll == 2

\* The path ids of the files of the compilation database.
database == <<0, 1, 2>>

\* std::max(std::thread::hardware_concurrency(), 4u), here with two hardware threads.
max_count == LET hardware_concurrency == 2
             IN  IF hardware_concurrency > 4 THEN hardware_concurrency ELSE 4

\* An index task that stores an index whether or not the compilation succeeded.
Indexer_index_always(self, path, tu_index) ==
    [project_index |-> self.project_index \cup {path},
     in_memory_indices |-> Put(self.in_memory_indices, path, "TUIndex")]

\* Indexer::index(path) once the compilation is back: without a unit nothing
\* is emitted; with one, the TU index is merged into the project index and
\* kept in in_memory_indices.
Indexer_index(self, path, tu_index) ==
    IF tu_index = <<>>
    THEN self
    ELSE [project_index |-> self.project_index \cup {path},
          in_memory_indices |-> Put(self.in_memory_indices, path, tu_index[1])]

\* Indexer::schedule_next from the top of its loop to its next suspension,
\* for a loop that stood at position `from`: with nothing queued it awaits
\* update_event; otherwise it pops the front path, puts its index task in the
\* first empty slot and awaits slot i (a loop awaiting a slot is that slot's
\* task).  With no empty slot i equals workings.size() and `workings[i]` is
\* out of bounds.
schedule_next(from, slots) ==
    LET empty == {i \in DOMAIN slots : slots[i] = <<>>}
        i == IF empty = {} THEN Len(slots) + 1 ELSE CHOOSE n \in empty : \A m \in empty : n <= m
        left == IF from = "workings" THEN loops ELSE [loops EXCEPT ![from] = @ - 1]
    IN  IF waitings = <<>>
        THEN /\ loops' = [left EXCEPT !.update_event = @ + 1]
             /\ workings' = slots
             /\ UNCHANGED waitings
        ELSE /\ waitings' = Tail(waitings)
             /\ workings' = IF i > Len(slots) THEN slots ELSE SetAt(slots, i, <<Head(waitings)>>)
             /\ loops' = IF i > Len(slots) THEN [left EXCEPT !.out_of_bounds = @ + 1] ELSE left

\* Indexer::index_all: every file of the database is queued, workings is
\* resized to max_count and max_count loops are scheduled.
IndexAll ==
    /\ Cardinality({i \in DOMAIN workings : workings[i] # <<>>}) + loops.scheduled
          + loops.update_event + loops.out_of_bounds < MaxIndexAll * max_count
    /\ waitings' = waitings \o database
    /\ workings' = IF workings = <<>> THEN [i \in 1 .. max_count |-> <<>>] ELSE workings
    /\ loops' = [loops EXCEPT !.scheduled = @ + max_count]
    /\ UNCHANGED <<indexer, compiled>>
    /\ UNCHANGED not_indexer_vars

\* A scheduled loop starts to run.
ScheduleNext ==
    /\ loops.scheduled > 0
    /\ schedule_next("scheduled", workings)
    /\ UNCHANGED <<indexer, compiled>>
    /\ UNCHANGED not_indexer_vars

\* The compilation of the task in slot i is back from the worker pool, with a
\* TU index or without one: index finishes, the loop awaiting the slot
\* releases it and goes round.
IndexDone(i, tu_index) ==
    /\ workings[i] # <<>>
    /\ indexer' = Indexer_index(indexer, workings[i][1], tu_index)
    /\ compiled' = <<[ok |-> tu_index # <<>>, tick |-> compiled = <<>> \/ ~compiled[1].tick]>>
    /\ schedule_next("workings", SetAt(workings, i, <<>>))
    /\ UNCHANGED not_indexer_vars

IndexerNext ==
    \/ IndexAll
    \/ ScheduleNext
    \/ \E i \in DOMAIN workings, tu_index \in {<<>>, <<"TUIndex">>} : IndexDone(i, tu_index)

IndexerSpec == Init /\ [][IndexerNext]_vars

\* C25: at most max_count index tasks are in flight, and no loop that popped
\* a path awaits a slot beyond the end of workings.
SlotAlwaysFree ==
    /\ Cardinality({i \in DOMAIN workings : workings[i] # <<>>}) <= max_count
    /\ loops.out_of_bounds = 0

\* C26: when the compilation of a translation unit fails, the project index
\* and the in-memory indices stay what they were, and the loop goes on to the
\* next queued path.
FailedCompileEmitsNothing ==
    [][compiled' # compiled /\ ~compiled'[1].ok =>
          /\ indexer' = indexer
          /\ waitings # <<>> =>
                /\ waitings' = Tail(waitings)
                /\ \E i \in DOMAIN workings' : workings'[i] = <<Head(waitings)>>]_vars

\* C26 witness: a compilation failed after another TU was indexed, and the
\* loop has taken the next queued path, which is being indexed.
FailedThenNextPath ==
    /\ compiled # <<>>
    /\ ~compiled[1].ok
    /\ indexer.project_index # {}
    /\ waitings = <<1, 2>>
    /\ \E i \in DOMAIN workings : workings[i] = <<0>>

\* C39: every path a scheduler loop takes off the queue is handed to an index
\* task in a slot of workings, and to one only: no queued path is dropped and
\* none is being indexed by two loops.
QueuedPathIndexedOnce ==
    [][(waitings # <<>> /\ waitings' = Tail(waitings)) =>
          Cardinality({i \in DOMAIN workings' : workings'[i] = <<Head(waitings)>>}) = 1]_vars

(***************************************************************************)
(* The driver query (src/src/Compiler/Driver.h, parse_query_result).  The  *)
(* driver's output is a sequence of pieces: a newline, a blank, a marker,  *)
(* the word `Target:`, or a path.                                          *)
(***************************************************************************)
\* The most pieces of one driver output.
MaxContent == 6

\* The pieces a driver output is made of.
OutputPieces ==
    {"\n", " ", "Target:", "#include <...> search starts here:", "End of search list.",
     "/usr/include"}

\* content.split(lines, '\n', -1, false): the lines between newlines, empty
\* lines dropped.  `line` is the line being collected.
RECURSIVE split(_, _)
split(content, line) ==
    IF content = <<>>
    THEN IF line = <<>> THEN <<>> ELSE <<line>>
    ELSE IF Head(content) = "\n"
         THEN (IF line = <<>> THEN <<>> ELSE <<line>>) \o split(Tail(content), <<>>)
         ELSE split(Tail(content), Append(line, Head(content)))

\* StringRef::trim: the line without its leading and trailing blanks.
trim(line) ==
    LET solid == {i \in DOMAIN line : line[i] # " "}
    IN  IF solid = {} THEN <<>>
        ELSE SubSeq(line, CHOOSE i \in solid : \A j \in solid : i <= j,
                          CHOOSE i \in solid : \A j \in solid : j <= i)

\* line.starts_with("Target: ")
starts_with_TS(line) == Len(line) >= 2 /\ line[1] = "Target:" /\ line[2] = " "

\* The loop of parse_query_result with every line of the includes block
\* collected, a `Target: ` line too.
RECURSIVE parse_lines_collect_all(_, _)
parse_lines_collect_all(lines, info) ==
    IF lines = <<>> THEN info
    ELSE LET line == trim(Head(lines))
             seen == IF starts_with_TS(line)
                     THEN [info EXCEPT !.target = SubSeq(line, 3, Len(line))]
                     ELSE info
             next == IF line = <<"#include <...> search starts here:">>
                     THEN [seen EXCEPT !.found_start_marker = TRUE, !.in_includes_block = TRUE]
                     ELSE IF line = <<"End of search list.">>
                     THEN [seen EXCEPT !.in_includes_block = FALSE]
                     ELSE IF seen.in_includes_block
                     THEN [seen EXCEPT !.includes = Append(@, line)]
                     ELSE seen
         IN  parse_lines_collect_all(Tail(lines), next)

\* The loop of parse_query_result over the lines that are left.
RECURSIVE parse_lines(_, _)
parse_lines(lines, info) ==
    IF lines = <<>> THEN info
    ELSE LET line == trim(Head(lines))
             next == IF starts_with_TS(line)
                     THEN [info EXCEPT !.target = SubSeq(line, 3, Len(line))]
                     ELSE IF line = <<"#include <...> search starts here:">>
                     THEN [info EXCEPT !.found_start_marker = TRUE, !.in_includes_block = TRUE]
                     ELSE IF line = <<"End of search list.">>
                     THEN [info EXCEPT !.in_includes_block = FALSE]
                     ELSE IF info.in_includes_block
                     THEN [info EXCEPT !.includes = Append(@, line)]
                     ELSE info
         IN  parse_lines(Tail(lines), next)

\* parse_query_result(content, info): the target and the includes found, and
\* whether the result is a value or InvalidOutputFormat.
parse_query_result(content) ==
    LET info == parse_lines(split(content, <<>>),
                            [target |-> <<>>, includes |-> <<>>,
                             in_includes_block |-> FALSE, found_start_marker |-> FALSE])
    IN  [target |-> info.target, includes |-> info.includes,
         error |-> IF ~info.found_start_marker \/ info.in_includes_block
                   THEN <<"InvalidOutputFormat">> ELSE <<>>]

\* The driver writes one more piece and its output so far is parsed.
ParseQueryResult(piece) ==
    LET content == IF driver_call.op = "parse_query_result"
                   THEN Append(driver_call.input, piece) ELSE <<piece>>
    IN  /\ Len(content) <= MaxContent
        /\ driver_call' = [op |-> "parse_query_result", input |-> content,
                           result |-> parse_query_result(content)]
        /\ UNCHANGED not_driver_vars

(***************************************************************************)
(* The argument parser (src/src/Compiler/Driver.h, ArgumentParser::parse). *)
(***************************************************************************)
\* The most arguments of one parsed command.
MaxArguments == 3

\* Arguments of the classes the loop tells apart: an empty string, a flag, an
\* option that takes its value from the next argument, and an input.
Arguments == {"", "-v", "-o", "main.cpp"}

\* option_table.ParseOneArg(*this, index): the option made of the argument at
\* `at` (absent when `-o` has no argument after it) and the index after it.
parse_one(arguments, at) ==
    IF arguments[at] = "-o"
    THEN [it |-> at + 2,
          arg |-> IF at + 1 > Len(arguments) THEN <<>>
                  ELSE <<[spelling |-> "-o", index |-> at, value |-> <<arguments[at + 1]>>]>>]
    ELSE [it |-> at + 1,
          arg |-> <<[spelling |-> arguments[at], index |-> at, value |-> <<>>]>>]

\* The loop of ArgumentParser::parse from argument `it` (counted from 1):
\* empty arguments are passed over, a parsed option goes to on_parse, and a
\* parse that yields no option goes to on_error and ends the loop.
RECURSIVE parse_from(_, _, _)
parse_from(arguments, it, done) ==
    IF it = Len(arguments) + 1 THEN done
    ELSE IF arguments[it] = "" THEN parse_from(arguments, it + 1, done)
    ELSE LET one == parse_one(arguments, it)
         IN  IF one.arg = <<>>
             THEN [done EXCEPT !.on_error = Append(@, [index |-> it, count |-> one.it - it - 1])]
             ELSE parse_from(arguments, one.it, [done EXCEPT !.on_parse = Append(@, one.arg[1])])

\* ArgumentParser::parse(arguments, on_parse, on_error): what the two
\* callbacks were handed, in order.
parse(arguments) == parse_from(arguments, 1, [on_parse |-> <<>>, on_error |-> <<>>])

\* One more argument is added to the command and the command is parsed, for
\* a caller with the given CommandOptions::ignore_unknown.
Parse(argument, ignore_unknown) ==
    LET arguments == IF driver_call.op = "parse"
                     THEN Append(driver_call.input.arguments, argument) ELSE <<argument>>
    IN  /\ Len(arguments) <= MaxArguments
        /\ driver_call' = [op |-> "parse",
                           input |-> [arguments |-> arguments, ignore_unknown |-> ignore_unknown],
                           result |-> parse(arguments)]
        /\ UNCHANGED not_driver_vars

(***************************************************************************)
(* The command lookup (CompilationDatabase, src/include/Compiler/Command.h)*)
(* as its unit test pins it down (src/tests/unit/Compiler/Command.cpp).    *)
(***************************************************************************)
\* test("DefaultFilters"): the commands stored for main.cpp and the arguments
\* lookup returns for each.
DefaultFilters ==
    {[command |-> <<"g++", "main.cc">>,
      arguments |-> <<"g++", "main.cpp">>],
     [command |-> <<"clang++", "-c", "main.cpp">>,
      arguments |-> <<"clang++", "main.cpp">>],
     [command |-> <<"clang++", "-o", "main.o", "main.cpp">>,
      arguments |-> <<"clang++", "main.cpp">>],
     [command |-> <<"clang++", "-c", "-o", "main.o", "main.cc">>,
      arguments |-> <<"clang++", "main.cpp">>],
     [command |-> <<"cl.exe", "/c", "/Fomain.cpp.o", "main.cpp">>,
      arguments |-> <<"cl.exe", "main.cpp">>],
     [command |-> <<"g++", "-std=gnu++20", "-Winvalid-pch", "-include", "cmake_pch.hxx",
                    "-o", "main.cpp.o", "-c", "main.cpp">>,
      arguments |-> <<"g++", "-std=gnu++20", "-Winvalid-pch", "-include", "cmake_pch.hxx",
                      "main.cpp">>],
     [command |-> <<"clang++", "-Winvalid-pch", "-Xclang", "-include-pch", "-Xclang",
                    "cmake_pch.hxx.pch", "-Xclang", "-include", "-Xclang", "cmake_pch.hxx",
                    "-o", "main.cpp.o", "-c", "main.cpp">>,
      arguments |-> <<"clang++", "-Winvalid-pch", "-Xclang", "-include", "-Xclang",
                      "cmake_pch.hxx", "main.cpp">>],
     [command |-> <<"cl.exe", "/Yufoo.h", "/FIfoo.h", "/Fpfoo.h_v143.pch", "/c",
                    "/Fomain.cpp.o", "main.cpp">>,
      arguments |-> <<"cl.exe", "-include", "foo.h", "main.cpp">>]}

\* database.update_command("fake/", "main.cpp", command) followed by
\* database.lookup("main.cpp", options).arguments.
Lookup(command) ==
    /\ driver_call' = [op |-> "lookup", input |-> command,
                       result |-> (CHOOSE c \in DefaultFilters : c.command = command).arguments]
    /\ UNCHANGED not_driver_vars

(***************************************************************************)
(* The preamble bounds (compute_preamble_bounds), over texts made of the   *)
(* pieces below.                                                           *)
(***************************************************************************)
\* The most pieces of one text.
MaxText == 5

\* The pieces a text is made of, each with its length in bytes.
TextPieces ==
    {[text |-> "\n", size |-> 1], [text |-> "#include <x>", size |-> 12],
     [text |-> "module;", size |-> 7], [text |-> "export module t;", size |-> 16],
     [text |-> "int z=1;", size |-> 8]}

\* A scan that marks the start of every directive line instead of its end.
RECURSIVE bounds_at_line_start(_, _, _, _)
bounds_at_line_start(content, offset, line, bounds) ==
    IF content = <<>> THEN bounds
    ELSE LET piece == Head(content)
         IN  IF piece.text = "\n"
             THEN bounds_at_line_start(Tail(content), offset + 1, [line EXCEPT !.at = "start"], bounds)
             ELSE IF piece.text = "#include <x>" /\ line.at = "start"
             THEN bounds_at_line_start(Tail(content), offset + piece.size,
                                       [line EXCEPT !.at = "directive"], Append(bounds, offset))
             ELSE bounds

\* The scan of compute_preamble_bounds from `offset`: `line` tells whether the
\* scan is at the start of a line, inside a directive line, or after a leading
\* `module;`; `bounds` are the offsets found so far.  A directive line ends at
\* its newline (or at the end of the text) and its end is a bound; `module;`
\* counts when it is the first token of the text; any other token ends the scan.
RECURSIVE bounds_from(_, _, _, _)
bounds_from(content, offset, line, bounds) ==
    LET close == IF line.at = "directive" THEN Append(bounds, offset) ELSE bounds
    IN  IF content = <<>> THEN close
        ELSE LET piece == Head(content)
                 rest == Tail(content)
                 after == offset + piece.size
             IN  IF piece.text = "\n"
                 THEN bounds_from(rest, after, [line EXCEPT !.at = "start"], close)
                 ELSE IF line.at = "directive"
                 THEN bounds_from(rest, after, line, bounds)
                 ELSE IF piece.text = "#include <x>" /\ line.at = "start"
                 THEN bounds_from(rest, after, [at |-> "directive", first |-> FALSE], bounds)
                 ELSE IF piece.text = "module;" /\ line.at = "start" /\ line.first
                 THEN bounds_from(rest, after, [at |-> "module", first |-> FALSE],
                                  Append(bounds, after))
                 ELSE bounds

\* compute_preamble_bounds(content).
compute_preamble_bounds(content) ==
    bounds_from(content, 0, [at |-> "start", first |-> TRUE], <<>>)

\* One more piece is typed and the bounds of the text so far are computed.
ComputePreambleBounds(piece) ==
    LET content == IF driver_call.op = "compute_preamble_bounds"
                   THEN Append(driver_call.input, piece) ELSE <<piece>>
    IN  /\ Len(content) <= MaxText
        /\ driver_call' = [op |-> "compute_preamble_bounds", input |-> content,
                           result |-> compute_preamble_bounds(content)]
        /\ UNCHANGED not_driver_vars

DriverNext ==
    \/ \E piece \in OutputPieces : ParseQueryResult(piece)
    \/ \E argument \in Arguments, ignore_unknown \in BOOLEAN : Parse(argument, ignore_unknown)
    \/ \E c \in DefaultFilters : Lookup(c.command)
    \/ \E piece \in TextPieces : ComputePreambleBounds(piece)

DriverSpec == Init /\ [][DriverNext]_vars

\* C27: the arguments lookup returns hold no `-c`, no `-o` with its value, no
\* `--output=`, none of the PCH-injection options, and exactly one input file,
\* which is the looked-up file and comes last.
LookupStripsOutputAndPch ==
    driver_call.op = "lookup" =>
        LET arguments == driver_call.result
            Has(pair) == \E i \in 1 .. (Len(arguments) - 1) :
                            <<arguments[i], arguments[i + 1]>> = pair
        IN  /\ \A i \in DOMAIN arguments :
                  arguments[i] \notin {"-c", "/c", "-o", "main.o", "main.cpp.o", "--output=main.o",
                                       "/Fomain.cpp.o", "-include-pch", "cmake_pch.hxx.pch",
                                       "/Yufoo.h", "/FIfoo.h", "/Fpfoo.h_v143.pch"}
            /\ ~Has(<<"-include", "cmake_pch.hxx">>)
            /\ arguments[Len(arguments)] = "main.cpp"
            /\ \A i \in 1 .. (Len(arguments) - 1) : arguments[i] \notin {"main.cpp", "main.cc"}

\* The lines of a driver output as the parser sees them: split at newlines,
\* empty lines dropped, each trimmed.
QueryLines(content) ==
    LET lines == split(content, <<>>)
    IN  [i \in DOMAIN lines |-> trim(lines[i])]

\* The lines of `lines` that lie after a start marker with no end marker in
\* between and are no marker themselves, in order.
LinesBetweenMarkers(lines) ==
    LET SIS == <<"#include <...> search starts here:">>
        SIE == <<"End of search list.">>
        Between(i) == /\ lines[i] \notin {SIS, SIE}
                      /\ \E b \in 1 .. (i - 1) :
                            /\ lines[b] = SIS
                            /\ \A e \in (b + 1) .. (i - 1) : lines[e] # SIE
    IN  SelectSeq([i \in DOMAIN lines |-> i], Between)

\* The parse fails exactly when no start marker occurs or the last start
\* marker has no end marker after it.
FailsWithoutMarkers(lines, result) ==
    LET starts == {i \in DOMAIN lines : lines[i] = <<"#include <...> search starts here:">>}
        ends == {i \in DOMAIN lines : lines[i] = <<"End of search list.">>}
    IN  result.error # <<>> <=>
            \/ starts = {}
            \/ \E b \in starts : (\A c \in starts : c <= b) /\ (\A e \in ends : e < b)

ParseStopsOrSkips ==
    driver_call.op = "parse" =>
        LET arguments == driver_call.input.arguments
            result == driver_call.result
            \* a parse yields no option when a `-o` in option position is the last argument
            parsed == {result.on_parse[k].index : k \in DOMAIN result.on_parse}
            values == {o \in parsed : arguments[o] = "-o"}
            missing == {i \in DOMAIN arguments :
                           /\ arguments[i] = "-o" /\ i = Len(arguments)
                           /\ (i - 1) \notin values}
        IN  /\ \A j, k \in DOMAIN result.on_parse :
                  j < k => result.on_parse[j].index < result.on_parse[k].index
            /\ missing # {} /\ ~driver_call.input.ignore_unknown =>
                  result.on_error = <<[index |-> Len(arguments), count |-> 1]>>
            /\ missing # {} /\ driver_call.input.ignore_unknown => result.on_error = <<>>
            /\ missing = {} => result.on_error = <<>>

\* The offset at which piece i of a text starts.
RECURSIVE OffsetOf(_, _)
OffsetOf(content, i) == IF i = 1 THEN 0 ELSE OffsetOf(content, i - 1) + content[i - 1].size

MaxOccurrences == 3

\* The declarations met in the AST.
Decls == {"f", "g", "h"}

\* The order of symbol names.
NameRank(name) == CHOOSE i \in 1 .. 4 : <<"f", "g", "h", "k">>[i] = name

\* AST.getSymbolID(decl): the hash and the name; "f" and "g" hash alike.
getSymbolID(decl) == [hash |-> IF decl \in {"f", "g"} THEN 1 ELSE 2, name |-> decl]

\* The ranges of the occurrences.
SourceRanges == {<<0, 1>>, <<2, 3>>}

\* The position of x in s.
IndexOf(s, x) == CHOOSE i \in DOMAIN s : s[i] = x

\* The elements of s in the order p (p[i] is the old position of new element i).
RECURSIVE Pick(_, _, _)
Pick(s, p, n) == IF n = 0 THEN <<>> ELSE Append(Pick(s, p, n - 1), s[p[n]])

\* ranges::sort: the orders a sort may leave elements in whose sort keys are
\* the pairs `keys`, compared member by member; elements that compare equal
\* may end in any order (the sort is not stable).
sort_orders(keys) ==
    LET Less(a, b) == a[1] < b[1] \/ (a[1] = b[1] /\ a[2] < b[2])
    IN  {p \in Perms(DOMAIN keys) :
            \A i, j \in DOMAIN keys : i < j => ~Less(keys[p[j]], keys[p[i]])}

\* ranges::unique(s, refl::equal) and erase: of every run of equal neighbours
\* the first is kept.
RECURSIVE unique(_)
unique(s) ==
    IF Len(s) <= 1 THEN s
    ELSE LET rest == unique(Tail(s))
         IN  IF Head(s) = Head(rest) THEN rest ELSE <<Head(s)>> \o rest

\* handleDeclOccurrence: getLocation(range), getSymbol(decl), addOccurrence.
handleDeclOccurrence(self, decl, range) ==
    LET id == getSymbolID(decl)
        rs == IF range \in Range(self.ranges) THEN self.ranges ELSE Append(self.ranges, range)
        ss == IF id \in Range(self.symbols) THEN self.symbols ELSE Append(self.symbols, id)
    IN  [self EXCEPT !.ranges = rs, !.symbols = ss,
                     !.occurrences = Append(@, [location |-> IndexOf(rs, range),
                                                symbol |-> IndexOf(ss, id)])]

\* SymbolIndexBuilder::sort: the builders it may end in.  Symbols are sorted
\* by id, ranges by (begin, end), the occurrences are renumbered and sorted
\* by their location alone, then neighbouring duplicates are erased.
SymbolIndexBuilder_sort(self) ==
    LET symbol_keys == [i \in DOMAIN self.symbols |->
                              <<self.symbols[i].hash, NameRank(self.symbols[i].name)>>]
        symbol_order == CHOOSE p \in sort_orders(symbol_keys) : TRUE
        location_order == CHOOSE p \in sort_orders(self.ranges) : TRUE
        symbolMap(old) == CHOOSE i \in DOMAIN symbol_order : symbol_order[i] = old
        locationMap(old) == CHOOSE i \in DOMAIN location_order : location_order[i] = old
        renumber[k \in 0 .. Len(self.occurrences)] ==
            IF k = 0 THEN <<>>
            ELSE Append(renumber[k - 1],
                        [location |-> locationMap(self.occurrences[k].location),
                         symbol |-> symbolMap(self.occurrences[k].symbol)])
        renumbered == renumber[Len(self.occurrences)]
    IN  {[symbols |-> Pick(self.symbols, symbol_order, Len(self.symbols)),
          ranges |-> Pick(self.ranges, location_order, Len(self.ranges)),
          occurrences |-> unique(Pick(renumbered, p, Len(renumbered))),
          phase |-> "built"] :
            p \in sort_orders([i \in DOMAIN renumbered |-> <<renumbered[i].location, 0>>])}

\* SymbolIndex::locateSymbol(id): the outcomes of the call.  When lower_bound
\* returns end(), `*iter` reads past the symbol array and the comparison with
\* what lies there may come out either way.
locateSymbol(symbols, id) ==
    LET at == {i \in DOMAIN symbols : symbols[i].hash >= id.hash}
        iter == IF at = {} THEN Len(symbols) + 1 ELSE CHOOSE i \in at : \A j \in at : i <= j
    IN  IF iter = Len(symbols) + 1
        THEN {[result |-> <<>>, past_end |-> TRUE], [result |-> <<id>>, past_end |-> TRUE]}
        ELSE IF symbols[iter].hash = id.hash /\ symbols[iter].name = id.name
        THEN {[result |-> <<symbols[iter]>>, past_end |-> FALSE]}
        ELSE {[result |-> <<>>, past_end |-> FALSE]}

\* The visitor meets an occurrence of decl at range.
HandleDeclOccurrence(decl, range) ==
    /\ builder.phase = "collect"
    /\ Len(builder.occurrences) < MaxOccurrences
    /\ builder' = handleDeclOccurrence(builder, decl, range)
    /\ UNCHANGED <<symbol_call, not_symbol_vars>>

\* SymbolIndexCollector::build: sort() and dump().
Sort ==
    /\ builder.phase = "collect"
    /\ builder' \in SymbolIndexBuilder_sort(builder)
    /\ UNCHANGED <<symbol_call, not_symbol_vars>>

\* locateSymbol(id) on the built index.
LocateSymbol(id) ==
    /\ builder.phase = "built"
    /\ \E outcome \in locateSymbol(builder.symbols, id) :
          symbol_call' = [op |-> "locateSymbol", id |-> id, result |-> outcome.result,
                          past_end |-> outcome.past_end]
    /\ UNCHANGED <<builder, not_symbol_vars>>

SymbolNext ==
    \/ \E decl \in Decls, range \in SourceRanges : HandleDeclOccurrence(decl, range)
    \/ Sort
    \/ \E id \in {getSymbolID(decl) : decl \in Decls} \cup {[hash |-> 3, name |-> "k"]} :
          LocateSymbol(id)

SymbolSpec == Init /\ [][SymbolNext]_vars

\* C31: after sort the occurrences are strictly ascending in the key
\* (range.begin, range.end, symbol): no (range, symbol) pair appears twice.
OccurrencesStrictlyAscending ==
    builder.phase = "built" =>
        \A i, j \in DOMAIN builder.occurrences :
            i < j =>
                LET a == builder.occurrences[i]
                    b == builder.occurrences[j]
                IN  \/ a.location < b.location
                    \/ a.location = b.location /\ a.symbol < b.symbol

\* C40: locateSymbol(id) returns the stored symbol with the id's hash and
\* name when there is one and nothing otherwise, and never reads past the end
\* of the symbol array.
LocateSymbolFindsStored ==
    symbol_call.op = "locateSymbol" =>
        /\ ~symbol_call.past_end
        /\ symbol_call.id \in Range(builder.symbols) => symbol_call.result = <<symbol_call.id>>
        /\ symbol_call.id \notin Range(builder.symbols) => symbol_call.result = <<>>

(***************************************************************************)
(* The plugin loader (src/src/Server/Plugin.cpp, Plugin::load) and the     *)
(* loop that calls it (src/src/clice.cc, load_plugins).                    *)
(***************************************************************************)
\* The most plugin paths on the command line.
MaxPlugins == 2

\* CLICE_PLUGIN_API_VERSION.
CLICE_PLUGIN_API_VERSION == 1

\* CLICE_PLUGIN_DEF_HASH, as a string of two characters.
CLICE_PLUGIN_DEF_HASH == <<"a", "b">>

\* std::isprint(c): BEL stands for a character that cannot be printed.
isprint(c) == c # "BEL"

\* The plugin files: whether the library loads, whether it exports
\* clice_get_server_plugin_info, and the info that function returns.
PluginFiles ==
    [loads : BOOLEAN, exports : BOOLEAN, api_version : {0, 1, 2},
     definition_hash : {<<"a", "b">>, <<"a", "c">>, <<"a", "BEL">>, <<"a">>, <<"a", "b", "c">>},
     register_server_callbacks : {"null", "callback"}]

\* Plugin::load without the comparison of the definition hash with the
\* server's constant.
Plugin_load_any_hash(file) ==
    IF ~file.loads THEN [ok |-> FALSE, error |-> "Could not load library"]
    ELSE IF ~file.exports THEN [ok |-> FALSE, error |-> "symbol not found"]
    ELSE IF file.api_version # CLICE_PLUGIN_API_VERSION
    THEN [ok |-> FALSE, error |-> "Wrong API version"]
    ELSE IF Len(CLICE_PLUGIN_DEF_HASH) # Len(file.definition_hash)
    THEN [ok |-> FALSE, error |-> "Wrong definition hash size"]
    ELSE IF \E i \in DOMAIN file.definition_hash : ~isprint(file.definition_hash[i])
    THEN [ok |-> FALSE, error |-> "Corrupt definition hash"]
    ELSE IF file.register_server_callbacks = "null"
    THEN [ok |-> FALSE, error |-> "Empty register_server_callbacks"]
    ELSE [ok |-> TRUE, error |-> ""]

\* Plugin::load(file_path): a Plugin or the error message.
Plugin_load(file) ==
    IF ~file.loads THEN [ok |-> FALSE, error |-> "Could not load library"]
    ELSE IF ~file.exports THEN [ok |-> FALSE, error |-> "symbol not found"]
    ELSE IF file.api_version # CLICE_PLUGIN_API_VERSION
    THEN [ok |-> FALSE, error |-> "Wrong API version"]
    ELSE IF Len(CLICE_PLUGIN_DEF_HASH) # Len(file.definition_hash)
    THEN [ok |-> FALSE, error |-> "Wrong definition hash size"]
    ELSE IF \E i \in DOMAIN file.definition_hash : ~isprint(file.definition_hash[i])
    THEN [ok |-> FALSE, error |-> "Corrupt definition hash"]
    ELSE IF \E i \in DOMAIN file.definition_hash :
                file.definition_hash[i] # CLICE_PLUGIN_DEF_HASH[i]
    THEN [ok |-> FALSE, error |-> "Wrong definition hash"]
    ELSE IF file.register_server_callbacks = "null"
    THEN [ok |-> FALSE, error |-> "Empty register_server_callbacks"]
    ELSE [ok |-> TRUE, error |-> ""]

\* One round of the loop of load_plugins: the plugin is loaded; a failure is
\* fatal (LOG_FATAL ends the process), otherwise its register callback is
\* invoked and the plugin is kept.
LoadPlugin(file) ==
    LET plugin_instance == Plugin_load(file)
    IN  /\ ~plugin_call.exited
        /\ plugin_call.plugins < MaxPlugins
        /\ plugin_call' = [op |-> "load", input |-> file, result |-> plugin_instance,
                           registered |-> plugin_instance.ok,
                           plugins |-> IF plugin_instance.ok THEN plugin_call.plugins + 1
                                       ELSE plugin_call.plugins,
                           exited |-> ~plugin_instance.ok]
        /\ UNCHANGED not_plugin_vars

PluginNext == \E file \in PluginFiles : LoadPlugin(file)

PluginSpec == Init /\ [][PluginNext]_vars

\* C32: load returns a Plugin only if the library loads, exports the info
\* function, has the server's api version, a printable definition hash equal
\* to the server's constant, and a register callback; in every other case it
\* returns an error and the register callback is not invoked.
LoadOnlyCompatiblePlugin ==
    plugin_call.op = "load" =>
        LET file == plugin_call.input
            compatible ==
                /\ file.loads /\ file.exports
                /\ file.api_version = CLICE_PLUGIN_API_VERSION
                /\ file.definition_hash = CLICE_PLUGIN_DEF_HASH
                /\ \A i \in DOMAIN file.definition_hash : isprint(file.definition_hash[i])
                /\ file.register_server_callbacks # "null"
        IN  /\ plugin_call.result.ok <=> compatible
            /\ ~plugin_call.result.ok => ~plugin_call.registered /\ plugin_call.result.error # ""

\* C32 witness: a plugin whose definition hash has the right size and is
\* printable but differs from the server's is refused and not registered,
\* after another plugin was loaded and registered.
WrongHashRefused ==
    /\ plugin_call.op = "load"
    /\ plugin_call.input.loads /\ plugin_call.input.exports
    /\ plugin_call.input.api_version = CLICE_PLUGIN_API_VERSION
    /\ plugin_call.input.definition_hash = <<"a", "c">>
    /\ plugin_call.input.register_server_callbacks = "callback"
    /\ ~plugin_call.result.ok
    /\ ~plugin_call.registered
    /\ plugin_call.plugins = 1

(***************************************************************************)
(* The module scanner (src/src/Compiler/Module.cpp, scanModuleName), over  *)
(* texts given line by line.                                               *)
(***************************************************************************)
\* The most lines of one text.
MaxLines == 5

\* The lines a text is made of.
Lines == {"#ifdef TEST", "#endif", "export module A;", "int x;"}

\* scanModule(params).name: the named module the preprocessor ends in when
\* the command defines TEST or not; `depth` counts the open conditional blocks.
RECURSIVE scanModule(_, _, _)
scanModule(content, defined, depth) ==
    IF content = <<>> THEN ""
    ELSE LET line == Head(content)
         IN  IF line = "#ifdef TEST" THEN scanModule(Tail(content), defined, depth + 1)
             ELSE IF line = "#endif"
             THEN scanModule(Tail(content), defined, IF depth = 0 THEN 0 ELSE depth - 1)
             ELSE IF line = "export module A;" /\ (depth = 0 \/ defined) THEN "A"
             ELSE scanModule(Tail(content), defined, depth)

\* The raw-lexer loop of scanModuleName over the lines that are left:
\* the name, and whether the text was preprocessed to find it.
RECURSIVE scan_lines(_, _, _)
scan_lines(content, params, isInDirective) ==
    IF content = <<>> THEN [name |-> "", preprocessed |-> FALSE]
    ELSE LET line == Head(content)
         IN  IF line = "#ifdef TEST" THEN scan_lines(Tail(content), params, TRUE)
             ELSE IF line = "#endif" THEN scan_lines(Tail(content), params, FALSE)
             ELSE IF line = "export module A;"
             THEN IF isInDirective
                  THEN [name |-> scanModule(params.content, params.defined, 0),
                        preprocessed |-> TRUE]
                  ELSE [name |-> "A", preprocessed |-> FALSE]
             ELSE scan_lines(Tail(content), params, isInDirective)

\* scanModuleName(params).
scanModuleName(params) == scan_lines(params.content, params, FALSE)

\* One more line is typed and the module name of the text is scanned, with a
\* command that defines TEST or does not.
ScanModuleName(line, defined) ==
    LET content == IF module_call.op = "scanModuleName"
                   THEN Append(module_call.input.content, line) ELSE <<line>>
        params == [content |-> content, defined |-> defined]
    IN  /\ Len(content) <= MaxLines
        /\ module_call' = [op |-> "scanModuleName", input |-> params,
                           result |-> scanModuleName(params)]
        /\ UNCHANGED not_module_vars

ModuleNext == \E line \in Lines, defined \in BOOLEAN : ScanModuleName(line, defined)

ModuleSpec == Init /\ [][ModuleNext]_vars

\* The number of conditional blocks open before line i of a text.
RECURSIVE DepthBefore(_, _)
DepthBefore(content, i) ==
    IF i = 1 THEN 0
    ELSE DepthBefore(content, i - 1)
            + (IF content[i - 1] = "#ifdef TEST" THEN 1
               ELSE IF content[i - 1] = "#endif" THEN -1 ELSE 0)

\* C33: for a text whose conditional blocks are well nested, the name comes
\* from raw lexing only when the first `export module` line lies outside every
\* conditional block; inside a block, at any depth, the name is the one
\* preprocessing finds; without an `export module` line it is empty.
RawLexOnlyOutsideConditionals ==
    module_call.op = "scanModuleName" =>
        LET content == module_call.input.content
            exports == {i \in DOMAIN content : content[i] = "export module A;"}
            first == CHOOSE i \in exports : \A j \in exports : i <= j
            nested == /\ \A i \in 1 .. (Len(content) + 1) : DepthBefore(content, i) >= 0
                      /\ DepthBefore(content, Len(content) + 1) = 0
        IN  nested =>
                /\ exports = {} => module_call.result.name = ""
                /\ exports # {} /\ DepthBefore(content, first) = 0 =>
                      ~module_call.result.preprocessed /\ module_call.result.name = "A"
                /\ exports # {} /\ DepthBefore(content, first) > 0 =>
                      /\ module_call.result.preprocessed
                      /\ module_call.result.name = scanModule(content, module_call.input.defined, 0)

(***************************************************************************)
(* MergedIndex again: lookups between merges, and lookups as reads.        *)
(***************************************************************************)
\* C34: on an in-memory index that saw merges and lookups only, a
\* lookup(offset) returns what a search over all occurrences merged so far
\* returns: an occurrence merged after an earlier lookup is not left out.
LookupSeesEarlierMerges ==
    (call.op = "lookup_offset" /\ Loaded /\ Impl.removed = {}) =>
        Range(found_occurrences)
           = Range(lookup_offset([index EXCEPT !.impl[1].occurrences_cache = <<>>],
                                 call.offset).found)

\* C35: both lookups are reads: after lookup(offset) or lookup(symbol, kinds)
\* the index compares equal to the index before the call and serializes to
\* the same content.
LookupsReadOnly ==
    [][call'.op \in {"lookup_offset", "lookup_symbol"} =>
          /\ Equal(index, index')
          /\ Serializations(load_in_memory(index).impl[1])
                = Serializations(load_in_memory(index').impl[1])]_vars

====
